---- MODULE Spec2Model ----
(***************************************************************************)
(* Smart PDF Splitter: the segmentation-to-export pipeline of src/App.tsx  *)
(* (processQueue, addToZip, getUniqueName, handleReviewSave,               *)
(* downloadBatch, handleRemoveFile, handleFileUpload), the review session  *)
(* of the ReviewModal component, the splitting collaborator splitPdf and   *)
(* the verification engine verifyDocument of src/services/pdfService.ts.   *)
(*                                                                         *)
(* Text is modelled as a sequence of one-character strings, so that the    *)
(* regular-expression replacements of the source are computed character    *)
(* by character.  An absent optional field (customerId, reviewReason,      *)
(* error) is the empty text and an absent needsReview is FALSE: the source *)
(* only ever tests these fields for truthiness.  Confidence values and the *)
(* threshold are percentages (0.8 is 80).                                  *)
(***************************************************************************)
EXTENDS Integers, Sequences, FiniteSets, TLC

(***************************************************************************)
(* Bounds of the model                                                     *)
(***************************************************************************)
MaxFiles == 2
MaxUploads == 1
MaxPages == 2
MaxBulk == 51
MaxThrows == 1
MaxNames == 4

(***************************************************************************)
(* Program constants                                                       *)
(***************************************************************************)
BATCH_LIMIT == 50

(***************************************************************************)
(* Text helpers                                                            *)
(***************************************************************************)
Str_pdf == <<".", "p", "d", "f">>
Str_Unknown == <<"U", "n", "k", "n", "o", "w", "n">>
Str_Date == <<"D", "a", "t", "e">>
Str_Customer == <<"C", "u", "s", "t", "o", "m", "e", "r">>
Str_Undated == <<"U", "n", "d", "a", "t", "e", "d">>
Str_original == <<"o", "r", "i", "g", "i", "n", "a", "l", "_">>

LowerLetters == {"a", "b", "c", "d", "e", "f", "g", "i", "k", "l", "m", "n",
                 "o", "p", "r", "s", "t", "u", "w", "x"}
UpperLetters == {"A", "C", "D", "F", "I", "P", "U", "X"}
DigitChars == {"0", "1", "2", "3", "4", "5", "6", "7", "8", "9"}

\* the class [a-z0-9] under the i flag
IsAlnum(c) == c \in LowerLetters \cup UpperLetters \cup DigitChars

ToLower(c) ==
  CASE c = "A" -> "a" [] c = "C" -> "c" [] c = "D" -> "d" [] c = "F" -> "f"
    [] c = "I" -> "i" [] c = "P" -> "p" [] c = "U" -> "u" [] c = "X" -> "x"
    [] OTHER -> c

LowerText(s) == [k \in 1..Len(s) |-> ToLower(s[k])]

\* s.replace(/\.pdf$/i, '')
StripPdf(s) ==
  IF Len(s) >= 4 /\ LowerText(SubSeq(s, Len(s) - 3, Len(s))) = Str_pdf
  THEN SubSeq(s, 1, Len(s) - 4)
  ELSE s

\* s.replace(/[^a-z0-9]+/gi, rep): every maximal run of characters outside
\* the class becomes one copy of rep
RECURSIVE ReplaceRuns(_, _, _)
ReplaceRuns(s, rep, inRun) ==
  IF s = <<>> THEN <<>>
  ELSE IF IsAlnum(Head(s))
       THEN <<Head(s)>> \o ReplaceRuns(Tail(s), rep, FALSE)
       ELSE (IF inRun THEN <<>> ELSE rep) \o ReplaceRuns(Tail(s), rep, TRUE)

Sanitize(s, rep) == ReplaceRuns(s, rep, FALSE)

DigitOf(d) ==
  CASE d = 0 -> "0" [] d = 1 -> "1" [] d = 2 -> "2" [] d = 3 -> "3"
    [] d = 4 -> "4" [] d = 5 -> "5" [] d = 6 -> "6" [] d = 7 -> "7"
    [] d = 8 -> "8" [] OTHER -> "9"

\* the decimal rendering of a counter inside a template literal
RECURSIVE Decimal(_)
Decimal(n) ==
  IF n < 10 THEN <<DigitOf(n)>> ELSE Decimal(n \div 10) \o <<DigitOf(n % 10)>>

\* `${baseName}_(${counter}).pdf`
Suffixed(baseName, counter) ==
  baseName \o <<"_", "(">> \o Decimal(counter) \o <<")">> \o Str_pdf

Truthy(s) == s # <<>>

OrElse(s, dflt) == IF Truthy(s) THEN s ELSE dflt

(***************************************************************************)
(* Sequence helpers                                                        *)
(***************************************************************************)
Range(s) == {s[k] : k \in 1..Len(s)}

RECURSIVE SeqFilterIdx(_, _, _)
SeqFilterIdx(s, keep, k) ==
  IF k > Len(s) THEN <<>>
  ELSE (IF k \in keep THEN <<s[k]>> ELSE <<>>) \o SeqFilterIdx(s, keep, k + 1)

\* Array.prototype.filter with the predicate given as the set of kept indices
KeepIdx(s, keep) == SeqFilterIdx(s, keep, 1)

Max(a, b) == IF a >= b THEN a ELSE b

Min(a, b) == IF a <= b THEN a ELSE b

(***************************************************************************)
(* Data: segments, reference records, file payloads                        *)
(***************************************************************************)
NoText == <<>>

\* a DocumentSegment as the recognition collaborator produces it
Seg(start, end, id, name, custId, date, conf, needs, reason) ==
  [startPage |-> start, endPage |-> end, deliveryId |-> id,
   customerName |-> name, customerId |-> custId, deliveryDate |-> date,
   confidence |-> conf, needsReview |-> needs, reviewReason |-> reason,
   verificationStatus |-> "undefined", dbMatch |-> <<>>,
   finalFilename |-> NoText]

DbRec(id, orderId, customers) ==
  [id |-> id, orderId |-> orderId, customers |-> customers]

Id_I1 == <<"I", "-", "1">>
Id_I2 == <<"I", "-", "2">>
Cust_Ac == <<"A", "c">>
Cust_Acme == <<"A", "c", "m", "e">>
CustId_12 == <<"#", "1", "2">>
CustId_99 == <<"#", "9", "9">>
Order_12 == <<"1", "2">>
Date_12 == <<"1", "-", "2">>

Name_a == <<"a", ".", "p", "d", "f">>
Name_b == <<"b", ".", "P", "D", "F">>
SegGood == Seg(1, 1, Id_I1, Cust_Ac, CustId_12, Date_12, 95, FALSE, NoText)
SegWrongCust == Seg(1, 1, Id_I1, Cust_Ac, CustId_99, Date_12, 95, FALSE, NoText)
SegNotInDb == Seg(1, 1, Id_I2, Cust_Ac, NoText, Date_12, 95, FALSE, NoText)
SegLow == Seg(1, 1, Id_I1, Cust_Ac, CustId_12, Date_12, 50, FALSE, NoText)
SegMid == Seg(1, 1, Id_I1, Cust_Ac, CustId_12, Date_12, 85, FALSE, NoText)
SegBeyond == Seg(MaxPages + 1, MaxPages + 1, Id_I2, Cust_Ac, NoText, Date_12, 95, FALSE, NoText)

\* messages of the exceptions the collaborators throw
Msg_render == "Could not create canvas context"
Msg_ai == "AI Analysis Failed"
Msg_split == "Failed to parse PDF document"
Msg_read == "The requested file could not be read"

ConfidenceValues == {80, 90}

(***************************************************************************)
(* src/services/pdfService.ts: verifyDocument                              *)
(***************************************************************************)
\* database.find(db => db.id == segment.deliveryId): 0 when there is none
DbFind(database, deliveryId) ==
  LET hits == {k \in 1..Len(database) : database[k].id = deliveryId}
  IN IF hits = {} THEN 0 ELSE CHOOSE k \in hits : \A j \in hits : k <= j

\* segment.customerId.replace(/^#/, "")
StripHash(s) == IF Len(s) >= 1 /\ s[1] = "#" THEN Tail(s) ELSE s

\* a reason that replaces the one the recognition gave
NotFoundReason_Replace(segment) ==
  <<"Delivery ID \"">> \o segment.deliveryId
  \o <<"\" not found in database">>

NotFoundReason(segment) ==
  (IF Truthy(segment.reviewReason)
   THEN segment.reviewReason \o <<" | ">> ELSE <<>>)
  \o <<"Delivery ID \"">> \o segment.deliveryId
  \o <<"\" not found in database">>

MismatchReason(segment, dbRecord) ==
  <<"CRITICAL: Customer ID mismatch! AI extracted \"">> \o segment.customerId
  \o <<"\" but database shows \"">> \o dbRecord.orderId
  \o <<"\" for this delivery. Please verify the document.">>

\* a verification that takes a match as the answer to every doubt
verifyDocument_ClearsFlag(segment, database) ==
  LET k == DbFind(database, segment.deliveryId)
  IN IF k = 0
     THEN [segment EXCEPT !.verificationStatus = "not_found",
                          !.needsReview = TRUE,
                          !.reviewReason = NotFoundReason(segment)]
     ELSE LET dbRecord == database[k]
          IN IF Truthy(segment.customerId)
                /\ dbRecord.orderId # StripHash(segment.customerId)
             THEN [segment EXCEPT !.verificationStatus = "mismatch",
                                  !.dbMatch = <<dbRecord>>,
                                  !.needsReview = TRUE,
                                  !.reviewReason =
                                      MismatchReason(segment, dbRecord)]
             ELSE [segment EXCEPT !.verificationStatus = "verified",
                                  !.dbMatch = <<dbRecord>>,
                                  !.customerName = dbRecord.customers,
                                  !.needsReview = FALSE,
                                  !.reviewReason = NoText]

\* a verification that reports a differing customer id only for a segment the
\* recognition was not confident about
verifyDocument_TrustConfident(segment, database) ==
  LET k == DbFind(database, segment.deliveryId)
  IN IF k = 0
     THEN [segment EXCEPT !.verificationStatus = "not_found",
                          !.needsReview = TRUE,
                          !.reviewReason = NotFoundReason(segment)]
     ELSE LET dbRecord == database[k]
          IN IF Truthy(segment.customerId)
                /\ dbRecord.orderId # StripHash(segment.customerId)
                /\ segment.confidence < 80
             THEN [segment EXCEPT !.verificationStatus = "mismatch",
                                  !.dbMatch = <<dbRecord>>,
                                  !.needsReview = TRUE,
                                  !.reviewReason =
                                      MismatchReason(segment, dbRecord)]
             ELSE [segment EXCEPT !.verificationStatus = "verified",
                                  !.dbMatch = <<dbRecord>>,
                                  !.customerName = dbRecord.customers]

verifyDocument(segment, database) ==
  LET k == DbFind(database, segment.deliveryId)
  IN IF k = 0
     THEN [segment EXCEPT !.verificationStatus = "not_found",
                          !.needsReview = TRUE,
                          !.reviewReason = NotFoundReason(segment)]
     ELSE LET dbRecord == database[k]
          IN IF Truthy(segment.customerId)
                /\ dbRecord.orderId # StripHash(segment.customerId)
             THEN [segment EXCEPT !.verificationStatus = "mismatch",
                                  !.dbMatch = <<dbRecord>>,
                                  !.needsReview = TRUE,
                                  !.reviewReason =
                                      MismatchReason(segment, dbRecord)]
             ELSE [segment EXCEPT !.verificationStatus = "verified",
                                  !.dbMatch = <<dbRecord>>,
                                  !.customerName = dbRecord.customers]

verifyDocuments(segments, database) ==
  [k \in 1..Len(segments) |-> verifyDocument(segments[k], database)]

(***************************************************************************)
(* src/services/pdfService.ts: splitPdf                                    *)
(***************************************************************************)
\* `${safeId}_${safeDate}_${safeCustomer}${safeCustId ? `_${safeCustId}` : ''}.pdf`
SplitFilename(segment) ==
  LET safeId == Sanitize(OrElse(segment.deliveryId, Str_Unknown), <<"_">>)
      safeDate == Sanitize(OrElse(segment.deliveryDate, Str_Date), <<"-">>)
      customerNameToUse ==
        IF segment.verificationStatus = "verified" /\ segment.dbMatch # <<>>
        THEN segment.dbMatch[1].customers
        ELSE segment.customerName
      safeCustomer == Sanitize(OrElse(customerNameToUse, Str_Customer), <<"_">>)
      safeCustId == IF Truthy(segment.customerId)
                    THEN Sanitize(segment.customerId, <<>>) ELSE <<>>
  IN safeId \o <<"_">> \o safeDate \o <<"_">> \o safeCustomer
     \o (IF Truthy(safeCustId) THEN <<"_">> \o safeCustId ELSE <<>>)
     \o Str_pdf

\* a loop that advances the counter by two
RECURSIVE FirstUnused_Skip(_, _, _, _)
FirstUnused_Skip(usedNames, name, baseName, counter) ==
  IF name \in usedNames
  THEN FirstUnused_Skip(usedNames, Suffixed(baseName, counter), baseName,
                        counter + 2)
  ELSE name

\* while (usedNames.has(name)) { name = `${baseName}_(${counter}).pdf`; counter++ }
RECURSIVE FirstUnused(_, _, _, _)
FirstUnused(usedNames, name, baseName, counter) ==
  IF name \in usedNames
  THEN FirstUnused(usedNames, Suffixed(baseName, counter), baseName, counter + 1)
  ELSE name

\* the page indices (0-based, both ends included) a segment is cut from
ClampStart(segment) == Max(0, segment.startPage - 1)

\* an end that is not held to the last page of the document
ClampEnd_Unclamped(file, segment) == segment.endPage - 1

ClampEnd(file, segment) == Min(file.pages - 1, segment.endPage - 1)

RECURSIVE SplitLoop(_, _, _, _, _)
SplitLoop(file, segments, k, usedNames, results) ==
  IF k > Len(segments) THEN results
  ELSE LET segment == segments[k]
           start == ClampStart(segment)
           end == ClampEnd(file, segment)
       IN IF start > end
          THEN SplitLoop(file, segments, k + 1, usedNames, results)
          ELSE LET candidate == SplitFilename(segment)
                   filename == FirstUnused(usedNames, candidate,
                                           StripPdf(candidate), 1)
               IN SplitLoop(file, segments, k + 1, usedNames \cup {filename},
                            Append(results,
                                   [filename |-> filename,
                                    data |-> [src |-> file, first |-> start,
                                              last |-> end]]))

splitPdf(file, segments) == SplitLoop(file, segments, 1, {}, <<>>)

(***************************************************************************)
(* src/App.tsx: getUniqueName and the archive                              *)
(***************************************************************************)
\* the Set of names used in a folder of a Map<folder, Set<name>>
UsedNames(map, folder) == IF folder \in DOMAIN map THEN map[folder] ELSE {}

\* a getUniqueName that tries one suffix only
getUniqueName_Once(map, folder, filename) ==
  IF filename \in UsedNames(map, folder)
  THEN Suffixed(StripPdf(filename), 1)
  ELSE filename

\* the name getUniqueName returns
getUniqueName(map, folder, filename) ==
  FirstUnused(UsedNames(map, folder), filename, StripPdf(filename), 1)

\* the map after getUniqueName reserved the name it returned
Reserve(map, folder, filename) ==
  [f \in DOMAIN map \cup {folder} |->
     IF f = folder
     THEN UsedNames(map, folder) \cup {getUniqueName(map, folder, filename)}
     ELSE map[f]]

EmptyMap == [f \in {} |-> {}]

\* zip.folder(folder)?.file(name, data) or zip.file(name, data): a JSZip
\* holds one entry per path, a later write to the same path replaces it
ZipFile(zip, folder, name, data) ==
  LET same == {k \in 1..Len(zip) : zip[k].folder = folder /\ zip[k].name = name}
      entry == [folder |-> folder, name |-> name, data |-> data]
  IN IF same = {} THEN Append(zip, entry)
     ELSE [k \in 1..Len(zip) |-> IF k \in same THEN entry ELSE zip[k]]

EmptyZip == <<>>

(***************************************************************************)
(* State of the application (src/App.tsx, ReviewModal)                     *)
(***************************************************************************)
VARIABLES
  files,                      \* useState<ProcessedFile[]>
  history,                    \* useState<HistoryItem[]>: the ledger
  isProcessing,
  currentProcessingId,        \* 0 is null
  processedCount,
  showReviewModal,
  reviewQueue,                \* useState<ReviewItem[]>
  reviewModalFilter,
  settings,
  zipRef,                     \* the batch archive being accumulated
  processedInCurrentBatchRef,
  folderContentMapRef,        \* the NameScope of the batch archive
  originalFilesBufferRef,     \* Map<file id, ArrayBuffer>
  database,                   \* the reference table of DatabaseCard
  pq,                         \* the running processQueue invocation
  modal,                      \* state of the ReviewModal component
  save,                       \* the running handleSave / handleReviewSave
  nextId,                     \* source of fresh file ids
  clock                       \* Date.now() at the last upload

vars == <<files, history, isProcessing, currentProcessingId, processedCount,
          showReviewModal, reviewQueue, reviewModalFilter, settings, zipRef,
          processedInCurrentBatchRef, folderContentMapRef,
          originalFilesBufferRef, database, pq, modal, save,
          nextId, clock>>

NoError == ""
Msg_noDocuments == "No documents identified"
Msg_invalidRanges == "Invalid page ranges or empty documents"
Msg_typeError == "Cannot read properties of undefined (reading 'deliveryDate')"

DefaultSettings ==
  [outputMode |-> "by_date", includeOriginal |-> FALSE,
   manualReviewMode |-> TRUE, minConfidence |-> 80, modelType |-> "flash"]

\* no processQueue invocation is running
IdlePq ==
  [pc |-> "idle", files |-> <<>>, settings |-> DefaultSettings,
   showReviewModal |-> FALSE, queue |-> <<>>, i |-> 0, segments |-> <<>>,
   splitResults |-> <<>>]

ClosedModal ==
  [items |-> <<>>, isSaving |-> FALSE, filterMode |-> "all", initialIds |-> {}]

IdleSave ==
  [pc |-> "idle", items |-> <<>>, initialIds |-> {}, reviewQueue |-> <<>>,
   files |-> <<>>, settings |-> DefaultSettings, exportZip |-> <<>>]

Init ==
  /\ files = <<>>
  /\ history = <<>>
  /\ isProcessing = FALSE
  /\ currentProcessingId = 0
  /\ processedCount = 0
  /\ showReviewModal = FALSE
  /\ reviewQueue = <<>>
  /\ reviewModalFilter = "all"
  /\ settings = DefaultSettings
  /\ zipRef = EmptyZip
  /\ processedInCurrentBatchRef = 0
  /\ folderContentMapRef = EmptyMap
  /\ originalFilesBufferRef = [id \in {} |-> 0]
  /\ database = <<>>
  /\ pq = IdlePq
  /\ modal = ClosedModal
  /\ save = IdleSave
  /\ nextId = 1
  /\ clock = 0

(***************************************************************************)
(* Helpers of App                                                          *)
(***************************************************************************)
FileIds(fs) == {fs[k].id : k \in 1..Len(fs)}

\* files.find(f => f.id === id): the index, 0 when there is none
FindFile(fs, id) ==
  LET hits == {k \in 1..Len(fs) : fs[k].id = id}
  IN IF hits = {} THEN 0 ELSE CHOOSE k \in hits : \A j \in hits : k <= j

\* setFiles(prev => prev.map(f => f.id === id ? { ...f, status, error } : f))
updateFileStatus(fs, id, status, error) ==
  [k \in 1..Len(fs) |->
     IF fs[k].id = id THEN [fs[k] EXCEPT !.status = status, !.error = error]
     ELSE fs[k]]

\* setFiles(prev => prev.map(f => f.id === id ? { ...f, segments } : f))
SetSegments(fs, id, segments) ==
  [k \in 1..Len(fs) |->
     IF fs[k].id = id THEN [fs[k] EXCEPT !.segments = segments] ELSE fs[k]]

\* a ledger that puts the newest record first
addToHistory_Prepend(h, item) == <<item>> \o h

\* setHistory(prev => [...prev, item])
addToHistory(h, item) == Append(h, item)

HistoryItem(fileData, segments) ==
  [filename |-> fileData.originalName, processedAt |-> fileData.timestamp,
   segments |-> segments]

\* a filter that also takes the files that wait for review
IdleFiles_Pending(fs) ==
  KeepIdx(fs, {k \in 1..Len(fs) : fs[k].status \in {"idle", "waiting_review"}})

\* a filter that also takes the files that failed
IdleFiles_Retry(fs) ==
  KeepIdx(fs, {k \in 1..Len(fs) : fs[k].status \in {"idle", "error"}})

\* files.filter(f => f.status === 'idle')
IdleFiles(fs) == KeepIdx(fs, {k \in 1..Len(fs) : fs[k].status = "idle"})

\* a test that looks at the flag only, not at the confidence
NeedsForcedReview_FlagOnly(segments, minConfidence) ==
  \E k \in 1..Len(segments) : segments[k].needsReview

\* segments.some(s => s.needsReview || s.confidence < settings.minConfidence)
NeedsForcedReview(segments, minConfidence) ==
  \E k \in 1..Len(segments) :
     segments[k].needsReview \/ segments[k].confidence < minConfidence

\* splitResults.map((res, idx) => ({ ... segment: segments[idx] ... }))
NewReviewItems(fileData, splitResults, segments) ==
  [k \in 1..Len(splitResults) |->
     [id |-> <<fileData.id, k - 1>>,
      originalFileId |-> fileData.id,
      originalFileName |-> fileData.originalName,
      data |-> splitResults[k].data,
      filename |-> StripPdf(splitResults[k].filename),
      segment |-> segments[k],
      timestamp |-> fileData.timestamp]]

\* the folder of a piece under an output mode
TargetFolder(outputMode, originalFileName, deliveryDate) ==
  IF outputMode = "by_original" THEN StripPdf(originalFileName)
  ELSE IF outputMode = "by_date" THEN OrElse(deliveryDate, Str_Undated)
  ELSE NoText

\* addToZip reads fileData.segments[idx] of the file record captured when the
\* invocation started; reading deliveryDate of a missing element throws
PieceThrows(fileData, k, outputMode) ==
  outputMode = "by_date" /\ k > Len(fileData.segments)

\* the splitResults.forEach of addToZip from piece k on: the archive and the
\* scope it leaves behind, and whether it threw
RECURSIVE AddPieces(_, _, _, _, _, _)
AddPieces(zip, map, fileData, splitResults, k, outputMode) ==
  IF k > Len(splitResults) THEN [zip |-> zip, map |-> map, threw |-> FALSE]
  ELSE IF PieceThrows(fileData, k, outputMode)
  THEN [zip |-> zip, map |-> map, threw |-> TRUE]
  ELSE LET targetFolder ==
             TargetFolder(outputMode, fileData.originalName,
                          IF k <= Len(fileData.segments)
                          THEN fileData.segments[k].deliveryDate ELSE NoText)
           uniqueName == getUniqueName(map, targetFolder, splitResults[k].filename)
       IN AddPieces(ZipFile(zip, targetFolder, uniqueName, splitResults[k].data),
                    Reserve(map, targetFolder, splitResults[k].filename),
                    fileData, splitResults, k + 1, outputMode)

\* the second half of addToZip: the copy of the unmodified source payload
OriginalFolder(outputMode, originalFileName) ==
  IF outputMode = "by_original" THEN StripPdf(originalFileName) ELSE NoText

OriginalName(originalFileName) == Str_original \o originalFileName

(***************************************************************************)
(* ReviewModal: useEffect(..., [isOpen, defaultFilter])                    *)
(***************************************************************************)
ItemIds(items) == {items[k].id : k \in 1..Len(items)}

\* the component state after a render in which isOpen or defaultFilter may
\* have changed; reviewItems is the review queue of that render.  The state
\* of a closed modal is never read before the next opening overwrites it.
ModalEffect(m, oldOpen, oldFilter, newOpen, newFilter, reviewItems) ==
  IF oldOpen = newOpen /\ oldFilter = newFilter THEN m
  ELSE IF newOpen
       THEN [items |-> reviewItems, isSaving |-> m.isSaving,
             filterMode |-> newFilter, initialIds |-> ItemIds(reviewItems)]
       ELSE ClosedModal

(***************************************************************************)
(* src/App.tsx: processQueue                                               *)
(***************************************************************************)
\* the file record of the loop variable fileData
FileData == pq.queue[pq.i]

\* for (const fileData of filesToProcess) { if (!files.some(...)) continue; ...
\* the next index after i whose file is in the files the invocation sees
NextIdx(frame, i) ==
  LET ok == {j \in (i + 1)..Len(frame.queue) :
               frame.queue[j].id \in FileIds(frame.files)}
  IN IF ok = {} THEN 0 ELSE CHOOSE j \in ok : \A h \in ok : j <= h

\* files.some(f => f.status === 'waiting_review')
HasPendingReviews(fs) == \E k \in 1..Len(fs) : fs[k].status = "waiting_review"

\* error.message || "Processing failed"
CaughtMessage(msg) == IF msg = "" THEN "Processing failed" ELSE msg

StatusOnEmpty_Error == "error"

\* the status a file gets when recognition finds no segment
StatusOnEmpty == "done"

StatusOnNoPieces_Done == "done"

\* the status a file gets when the split yields no piece
StatusOnNoPieces == "error"

\* The rest of the loop after the body of one file: fs are the files after
\* the body, cnt the value of processedInCurrentBatchRef, brk whether the
\* body hit the break.  Either the next file starts converting, or the loop
\* is over and the invocation delivers the batch archive or ends.
Advance(frame, fs, cnt, brk) ==
  LET j == IF brk THEN 0 ELSE NextIdx(frame, frame.i)
  IN IF j # 0
     THEN /\ files' = updateFileStatus(fs, frame.queue[j].id, "converting", NoError)
          /\ currentProcessingId' = frame.queue[j].id
          /\ isProcessing' = TRUE
          /\ pq' = [frame EXCEPT !.pc = "converting", !.i = j,
                                 !.segments = <<>>, !.splitResults = <<>>]
     ELSE IF /\ ~frame.settings.manualReviewMode
             /\ ~HasPendingReviews(frame.files)
             /\ cnt > 0
     THEN /\ files' = fs
          /\ currentProcessingId' = IF frame.i = 0 THEN 0 ELSE frame.queue[frame.i].id
          /\ isProcessing' = TRUE
          /\ pq' = [frame EXCEPT !.pc = "downloading",
                                 !.segments = <<>>, !.splitResults = <<>>]
     ELSE /\ files' = fs
          /\ isProcessing' = FALSE
          /\ currentProcessingId' = 0
          /\ pq' = IdlePq

\* the end of a loop body that did not throw: count the file, test the cap
Counted(fs) ==
  /\ processedCount' = processedCount + 1
  /\ processedInCurrentBatchRef' = processedInCurrentBatchRef + 1
  /\ Advance(pq, fs, processedInCurrentBatchRef + 1,
             processedInCurrentBatchRef + 1 >= BATCH_LIMIT)

\* a catch block that gives up the rest of the loop
Caught_Abort(msg) ==
  LET fs == updateFileStatus(files, FileData.id, "error", CaughtMessage(msg))
  IN /\ UNCHANGED <<processedCount, processedInCurrentBatchRef>>
     /\ Advance(pq, fs, processedInCurrentBatchRef, TRUE)

\* the catch block of the loop body
Caught(msg) ==
  LET fs == updateFileStatus(files, FileData.id, "error", CaughtMessage(msg))
  IN /\ UNCHANGED <<processedCount, processedInCurrentBatchRef>>
     /\ Advance(pq, fs, processedInCurrentBatchRef, FALSE)

\* a start that does not look at isProcessing
StartProcess_Reentrant ==
  /\ IdleFiles(files) # <<>>
  /\ LET fresh == processedInCurrentBatchRef = 0 /\ ~settings.manualReviewMode
         frame == [IdlePq EXCEPT !.files = files, !.settings = settings,
                                 !.showReviewModal = showReviewModal,
                                 !.queue = IdleFiles(files)]
     IN /\ zipRef' = IF fresh THEN EmptyZip ELSE zipRef
        /\ folderContentMapRef' = IF fresh THEN EmptyMap ELSE folderContentMapRef
        /\ originalFilesBufferRef' =
             IF fresh THEN [id \in {} |-> 0] ELSE originalFilesBufferRef
        /\ Advance(frame, files, processedInCurrentBatchRef, FALSE)
  /\ UNCHANGED <<history, processedCount, showReviewModal, reviewQueue,
                 reviewModalFilter, settings, processedInCurrentBatchRef,
                 database, modal, save, nextId, clock>>

\* the click on Start Process, up to the first await
StartProcess ==
  /\ ~isProcessing
  /\ pq.pc = "idle"
  /\ IdleFiles(files) # <<>>
  /\ LET fresh == processedInCurrentBatchRef = 0 /\ ~settings.manualReviewMode
         frame == [IdlePq EXCEPT !.files = files, !.settings = settings,
                                 !.showReviewModal = showReviewModal,
                                 !.queue = IdleFiles(files)]
     IN /\ zipRef' = IF fresh THEN EmptyZip ELSE zipRef
        /\ folderContentMapRef' = IF fresh THEN EmptyMap ELSE folderContentMapRef
        /\ originalFilesBufferRef' =
             IF fresh THEN [id \in {} |-> 0] ELSE originalFilesBufferRef
        /\ Advance(frame, files, processedInCurrentBatchRef, FALSE)
  /\ UNCHANGED <<history, processedCount, showReviewModal, reviewQueue,
                 reviewModalFilter, settings, processedInCurrentBatchRef,
                 database, modal, save, nextId, clock>>

\* convertPdfToImages resolves
RenderReturns ==
  /\ pq.pc = "converting"
  /\ files' = updateFileStatus(files, FileData.id, "analyzing", NoError)
  /\ pq' = [pq EXCEPT !.pc = "analyzing"]
  /\ UNCHANGED <<history, isProcessing, currentProcessingId, processedCount,
                 showReviewModal, reviewQueue, reviewModalFilter, settings,
                 zipRef, processedInCurrentBatchRef, folderContentMapRef,
                 originalFilesBufferRef, database, modal, save,
                 nextId, clock>>

\* a collaborator call of the loop body rejects
CollaboratorThrows(at, msg) ==
  /\ pq.pc = at
  /\ Caught(msg)
  /\ UNCHANGED <<history, showReviewModal, reviewQueue, reviewModalFilter,
                 settings, zipRef, folderContentMapRef, originalFilesBufferRef,
                 database, modal, save, nextId, clock>>

RenderThrows == CollaboratorThrows("converting", Msg_render)

AnalyzeThrows == CollaboratorThrows("analyzing", Msg_ai)

SplitThrows == CollaboratorThrows("splitting", Msg_split)

\* await fileData.file.arrayBuffer() of addToZip rejects: the pieces are in
\* the archive already, the catch block marks the file
ZipOriginalThrows == CollaboratorThrows("zipOriginal", Msg_read)

\* Array.isArray(segmentsRaw) ? segmentsRaw : []
Normalise(raw) == IF raw.isArray THEN raw.segments ELSE <<>>

\* analyzeDocumentImages resolves with raw
AnalyzeReturns(raw) ==
  /\ pq.pc = "analyzing"
  /\ LET segments == Normalise(raw)
     IN IF Len(segments) = 0
        THEN /\ history' = addToHistory(history, HistoryItem(FileData, <<>>))
             /\ Counted([k \in 1..Len(files) |->
                           IF files[k].id = FileData.id
                           THEN [files[k] EXCEPT !.segments = <<>>,
                                                 !.status = StatusOnEmpty,
                                                 !.error = Msg_noDocuments]
                           ELSE files[k]])
        ELSE /\ files' = updateFileStatus(
                           SetSegments(files, FileData.id, segments),
                           FileData.id, "splitting", NoError)
             /\ pq' = [pq EXCEPT !.pc = "splitting", !.segments = segments]
             /\ UNCHANGED <<history, isProcessing, currentProcessingId,
                            processedCount, processedInCurrentBatchRef>>
  /\ UNCHANGED <<showReviewModal, reviewQueue, reviewModalFilter, settings,
                 zipRef, folderContentMapRef, originalFilesBufferRef, database,
                 modal, save, nextId, clock>>

\* settings.manualReviewMode || needsForcedReview
RoutesToReview(segments, st) ==
  st.manualReviewMode \/ NeedsForcedReview(segments, st.minConfidence)

\* settings.includeOriginal || needsForcedReview
BuffersOriginal(segments, st) ==
  st.includeOriginal \/ NeedsForcedReview(segments, st.minConfidence)

\* originalFilesBufferRef.current.set(id, buffer)
BufferSet(buf, id, bytes) ==
  [x \in DOMAIN buf \cup {id} |-> IF x = id THEN bytes ELSE buf[x]]

\* originalFilesBufferRef.current.delete(id) for every id of ids
BufferDelete(buf, ids) == [x \in DOMAIN buf \ ids |-> buf[x]]

\* the review branch after the ReviewItems were queued and the original
\* bytes (if any) buffered: status, default filter, modal
ReviewTail ==
  LET forced == NeedsForcedReview(pq.segments, pq.settings.minConfidence)
      newFilter == IF ~pq.settings.manualReviewMode /\ forced THEN "flagged"
                   ELSE IF pq.settings.manualReviewMode /\ ~pq.showReviewModal
                        THEN "all" ELSE reviewModalFilter
      newShow == IF ~pq.settings.manualReviewMode /\ forced THEN TRUE
                 ELSE showReviewModal
  IN /\ reviewModalFilter' = newFilter
     /\ showReviewModal' = newShow
     /\ modal' = ModalEffect(modal, showReviewModal, reviewModalFilter,
                             newShow, newFilter, reviewQueue')
     /\ Counted(updateFileStatus(files, FileData.id, "waiting_review", NoError))

\* the automatic branch after addToZip returned
AutoTail ==
  /\ history' = addToHistory(history, HistoryItem(FileData, pq.segments))
  /\ Counted(updateFileStatus(files, FileData.id, "done", NoError))

\* splitPdf resolves: the rest of the loop body up to its next await
SplitReturns ==
  /\ pq.pc = "splitting"
  /\ LET splitResults == splitPdf(FileData.file, pq.segments)
         added == AddPieces(zipRef, folderContentMapRef, FileData,
                            splitResults, 1, pq.settings.outputMode)
     IN IF Len(splitResults) = 0
        THEN /\ Counted(updateFileStatus(files, FileData.id, StatusOnNoPieces,
                                         Msg_invalidRanges))
             /\ UNCHANGED <<history, showReviewModal, reviewQueue,
                            reviewModalFilter, zipRef, folderContentMapRef,
                            modal>>
        ELSE IF RoutesToReview(pq.segments, pq.settings)
        THEN /\ reviewQueue' = reviewQueue \o
                  NewReviewItems(FileData, splitResults, pq.segments)
             /\ UNCHANGED <<history, zipRef, folderContentMapRef>>
             /\ IF BuffersOriginal(pq.segments, pq.settings)
                THEN /\ pq' = [pq EXCEPT !.pc = "buffering"]
                     /\ UNCHANGED <<files, isProcessing, currentProcessingId,
                                    processedCount, processedInCurrentBatchRef,
                                    showReviewModal, reviewModalFilter, modal>>
                ELSE ReviewTail
        ELSE /\ zipRef' = added.zip
             /\ folderContentMapRef' = added.map
             /\ UNCHANGED <<showReviewModal, reviewQueue, reviewModalFilter,
                            modal>>
             /\ IF added.threw
                THEN /\ Caught(Msg_typeError)
                     /\ UNCHANGED history
                ELSE IF pq.settings.includeOriginal
                THEN /\ pq' = [pq EXCEPT !.pc = "zipOriginal"]
                     /\ UNCHANGED <<files, history, isProcessing,
                                    currentProcessingId, processedCount,
                                    processedInCurrentBatchRef>>
                ELSE AutoTail
  /\ UNCHANGED <<settings, originalFilesBufferRef, database, save,
                 nextId, clock>>

\* await fileData.file.arrayBuffer() of the review branch resolves
BufferReturns ==
  /\ pq.pc = "buffering"
  /\ originalFilesBufferRef' =
       BufferSet(originalFilesBufferRef, FileData.id, FileData.file)
  /\ reviewQueue' = reviewQueue
  /\ ReviewTail
  /\ UNCHANGED <<history, settings, zipRef, folderContentMapRef, database,
                 save, nextId, clock>>

\* await fileData.file.arrayBuffer() of addToZip resolves
ZipOriginalReturns ==
  /\ pq.pc = "zipOriginal"
  /\ LET targetFolder == OriginalFolder(pq.settings.outputMode,
                                        FileData.originalName)
         originalName == OriginalName(FileData.originalName)
     IN /\ zipRef' = ZipFile(zipRef, targetFolder,
                             getUniqueName(folderContentMapRef, targetFolder,
                                           originalName),
                             FileData.file)
        /\ folderContentMapRef' =
             Reserve(folderContentMapRef, targetFolder, originalName)
  /\ AutoTail
  /\ UNCHANGED <<showReviewModal, reviewQueue, reviewModalFilter, settings,
                 originalFilesBufferRef, database, modal, save,
                 nextId, clock>>

\* the finally block of processQueue
Finally ==
  /\ isProcessing' = FALSE
  /\ currentProcessingId' = 0
  /\ pq' = IdlePq

\* downloadBatch: generateAsync resolves, the archive is delivered and the
\* accumulator, the counter, the scope and the buffers are reset
DownloadReturns ==
  /\ pq.pc = "downloading"
  /\ zipRef' = EmptyZip
  /\ processedInCurrentBatchRef' = 0
  /\ folderContentMapRef' = EmptyMap
  /\ originalFilesBufferRef' = [id \in {} |-> 0]
  /\ Finally
  /\ UNCHANGED <<files, history, processedCount, showReviewModal, reviewQueue,
                 reviewModalFilter, settings, database, modal, save, nextId,
                 clock>>

\* a rejection of generateAsync that skips the finally block
DownloadThrows_Unhandled ==
  /\ pq.pc = "downloading"
  /\ pq' = IdlePq
  /\ UNCHANGED <<files, history, isProcessing, currentProcessingId,
                 processedCount, showReviewModal, reviewQueue,
                 reviewModalFilter, settings, zipRef,
                 processedInCurrentBatchRef, folderContentMapRef,
                 originalFilesBufferRef, database, modal, save,
                 nextId, clock>>

\* downloadBatch: generateAsync rejects
DownloadThrows ==
  /\ pq.pc = "downloading"
  /\ Finally
  /\ UNCHANGED <<files, history, processedCount, showReviewModal, reviewQueue,
                 reviewModalFilter, settings, zipRef,
                 processedInCurrentBatchRef, folderContentMapRef,
                 originalFilesBufferRef, database, modal, save,
                 nextId, clock>>

(***************************************************************************)
(* src/App.tsx: handleFileUpload, handleRemoveFile, settings               *)
(***************************************************************************)
NewFile(id, payload, now, h) ==
  [id |-> id, file |-> payload, status |-> "idle", segments |-> <<>>,
   error |-> NoError, originalName |-> payload.name, timestamp |-> now,
   isDuplicate |-> \E k \in 1..Len(h) : h[k].filename = payload.name]

\* the upload inputs are disabled while isProcessing
AddFiles(selection) ==
  /\ ~isProcessing
  /\ clock' = clock + 1
  /\ nextId' = nextId + Len(selection)
  /\ files' = files \o
       [k \in 1..Len(selection) |->
          NewFile(nextId + k - 1, selection[k], clock + 1, history)]
  /\ UNCHANGED <<history, isProcessing, currentProcessingId, processedCount,
                 showReviewModal, reviewQueue, reviewModalFilter, settings,
                 zipRef, processedInCurrentBatchRef, folderContentMapRef,
                 originalFilesBufferRef, database, pq, modal, save>>

\* the selections tried: at most MaxFiles files over at most MaxUploads uploads
handleFileUpload(choices) ==
  /\ clock < MaxUploads
  /\ \E selection \in choices :
       /\ nextId + Len(selection) <= MaxFiles + 1
       /\ AddFiles(selection)

InFlight == {"converting", "analyzing", "splitting"}

\* the Remove button of a file row is disabled while the file is in flight
handleRemoveFile(id) ==
  /\ FindFile(files, id) # 0
  /\ files[FindFile(files, id)].status \notin InFlight
  /\ LET waiting == files[FindFile(files, id)].status = "waiting_review"
     IN /\ reviewQueue' =
             IF waiting
             THEN KeepIdx(reviewQueue, {k \in 1..Len(reviewQueue) :
                                          reviewQueue[k].originalFileId # id})
             ELSE reviewQueue
        /\ originalFilesBufferRef' =
             IF waiting THEN BufferDelete(originalFilesBufferRef, {id})
             ELSE originalFilesBufferRef
  /\ files' = KeepIdx(files, {k \in 1..Len(files) : files[k].id # id})
  /\ UNCHANGED <<history, isProcessing, currentProcessingId, processedCount,
                 showReviewModal, reviewModalFilter, settings, zipRef,
                 processedInCurrentBatchRef, folderContentMapRef, database, pq,
                 modal, save, nextId, clock>>

\* the Settings button is disabled while isProcessing; every control of the
\* SettingsModal calls onSave = setSettings with one field changed
SaveSettings(newSettings) ==
  /\ ~isProcessing
  /\ newSettings # settings
  /\ settings' = newSettings
  /\ UNCHANGED <<files, history, isProcessing, currentProcessingId,
                 processedCount, showReviewModal, reviewQueue,
                 reviewModalFilter, zipRef, processedInCurrentBatchRef,
                 folderContentMapRef, originalFilesBufferRef, database, pq,
                 modal, save, nextId, clock>>

handleModeChange(mode) == SaveSettings([settings EXCEPT !.outputMode = mode])

handleToggleIncludeOriginal ==
  SaveSettings([settings EXCEPT !.includeOriginal = ~settings.includeOriginal])

handleToggleManualReviewMode ==
  SaveSettings([settings EXCEPT !.manualReviewMode = ~settings.manualReviewMode])

handleConfidenceChange(val) == SaveSettings([settings EXCEPT !.minConfidence = val])

OutputModes == {"flatten", "by_original", "by_date"}

(***************************************************************************)
(* ReviewModal and src/App.tsx: handleOpenReview, handleReviewSave         *)
(***************************************************************************)
handleOpenReview ==
  /\ Len(reviewQueue) > 0
  /\ reviewModalFilter' = "all"
  /\ showReviewModal' = TRUE
  /\ modal' = ModalEffect(modal, showReviewModal, reviewModalFilter, TRUE,
                          "all", reviewQueue)
  /\ UNCHANGED <<files, history, isProcessing, currentProcessingId,
                 processedCount, reviewQueue, settings, zipRef,
                 processedInCurrentBatchRef, folderContentMapRef,
                 originalFilesBufferRef, database, pq, save, nextId,
                 clock>>

isFlagged(item, minConfidence) ==
  \/ item.segment.needsReview
  \/ item.segment.confidence < minConfidence
  \/ item.segment.verificationStatus = "mismatch"
  \/ item.segment.verificationStatus = "not_found"

\* the indices of the rows the modal shows
FilteredItems ==
  {k \in 1..Len(modal.items) :
     modal.filterMode = "flagged" =>
        isFlagged(modal.items[k], settings.minConfidence)}

\* value.replace(/[\\/:*?"<>|]/g, '_')
ForbiddenChars == {"\\", "/", ":", "*", "?", "\"", "<", ">", "|"}

SanitizeInput(value) ==
  [k \in 1..Len(value) |-> IF value[k] \in ForbiddenChars THEN "_" ELSE value[k]]

\* what the user may type into a filename field
NameInputs == { <<"X">>, <<"X", "?">> }

ModalOnly ==
  UNCHANGED <<files, history, isProcessing, currentProcessingId,
              processedCount, showReviewModal, reviewQueue, reviewModalFilter,
              settings, zipRef, processedInCurrentBatchRef,
              folderContentMapRef, originalFilesBufferRef, database, pq, save, nextId, clock>>

handleNameChange(k, value) ==
  /\ showReviewModal
  /\ ~modal.isSaving
  /\ k \in FilteredItems
  /\ modal.items[k].filename # SanitizeInput(value)
  /\ modal' = [modal EXCEPT !.items[k].filename = SanitizeInput(value)]
  /\ ModalOnly

handleDeleteItem(k) ==
  /\ showReviewModal
  /\ ~modal.isSaving
  /\ k \in FilteredItems
  /\ modal' = [modal EXCEPT !.items = KeepIdx(modal.items,
                                              (1..Len(modal.items)) \ {k})]
  /\ ModalOnly

setFilterMode(mode) ==
  /\ showReviewModal
  /\ modal.filterMode # mode
  /\ modal' = [modal EXCEPT !.filterMode = mode]
  /\ ModalOnly

\* the X and Cancel buttons of the modal are disabled while isSaving
onCancel ==
  /\ showReviewModal
  /\ ~modal.isSaving
  /\ showReviewModal' = FALSE
  /\ modal' = ModalEffect(modal, showReviewModal, reviewModalFilter, FALSE,
                          reviewModalFilter, reviewQueue)
  /\ UNCHANGED <<files, history, isProcessing, currentProcessingId,
                 processedCount, reviewQueue, reviewModalFilter, settings,
                 zipRef, processedInCurrentBatchRef, folderContentMapRef,
                 originalFilesBufferRef, database, pq, save, nextId,
                 clock>>

\* the click on Download Valid Files: setIsSaving(true) and a 10 ms timer
\* that will call the handleReviewSave of the render the click happened in
handleSave ==
  /\ showReviewModal
  /\ Len(modal.items) > 0
  /\ ~modal.isSaving
  /\ save.pc = "idle"
  /\ modal' = [modal EXCEPT !.isSaving = TRUE]
  /\ save' = [IdleSave EXCEPT !.pc = "timer", !.items = modal.items,
                              !.reviewQueue = reviewQueue, !.files = files,
                              !.settings = settings]
  /\ UNCHANGED <<files, history, isProcessing, currentProcessingId,
                 processedCount, showReviewModal, reviewQueue,
                 reviewModalFilter, settings, zipRef,
                 processedInCurrentBatchRef, folderContentMapRef,
                 originalFilesBufferRef, database, pq, nextId, clock>>

\* the members of a list of ids in the order of their first occurrence (the
\* iteration order of a Set built from the list)
RECURSIVE DistinctInOrder(_)
DistinctInOrder(ids) ==
  IF ids = <<>> THEN <<>>
  ELSE LET front == DistinctInOrder(SubSeq(ids, 1, Len(ids) - 1))
           last == ids[Len(ids)]
       IN IF last \in Range(front) THEN front ELSE Append(front, last)

\* step 2 of handleReviewSave: for (const item of itemsToSave) { ... }
RECURSIVE ExportItems(_, _, _, _, _)
ExportItems(zip, map, items, k, outputMode) ==
  IF k > Len(items) THEN [zip |-> zip, map |-> map]
  ELSE LET finalName == items[k].filename \o Str_pdf
           targetFolder == TargetFolder(outputMode, items[k].originalFileName,
                                        items[k].segment.deliveryDate)
       IN ExportItems(ZipFile(zip, targetFolder,
                              getUniqueName(map, targetFolder, finalName),
                              items[k].data),
                      Reserve(map, targetFolder, finalName),
                      items, k + 1, outputMode)

\* "Add Originals if requested": for (const originalId of originalIds) { ... }
RECURSIVE ExportOriginals(_, _, _, _, _, _, _)
ExportOriginals(zip, map, items, originalIds, k, outputMode, buf) ==
  IF k > Len(originalIds) THEN zip
  ELSE LET originalId == originalIds[k]
           own == {j \in 1..Len(items) : items[j].originalFileId = originalId}
           originalFileName ==
             items[CHOOSE j \in own : \A h \in own : j <= h].originalFileName
           targetFolder == OriginalFolder(outputMode, originalFileName)
           finalOriginalName == OriginalName(originalFileName)
       IN IF originalId \in DOMAIN buf
          THEN ExportOriginals(
                 ZipFile(zip, targetFolder,
                         getUniqueName(map, targetFolder, finalOriginalName),
                         buf[originalId]),
                 Reserve(map, targetFolder, finalOriginalName),
                 items, originalIds, k + 1, outputMode, buf)
          ELSE ExportOriginals(zip, map, items, originalIds, k + 1,
                               outputMode, buf)

\* the archive handleReviewSave builds from itemsToSave
ExportZip(items, st, buf) ==
  LET pieces == ExportItems(EmptyZip, EmptyMap, items, 1, st.outputMode)
      originalIds ==
        DistinctInOrder([k \in 1..Len(items) |-> items[k].originalFileId])
  IN IF st.includeOriginal
     THEN ExportOriginals(pieces.zip, pieces.map, items, originalIds, 1,
                          st.outputMode, buf)
     ELSE pieces.zip

\* the timer of handleSave fires: handleReviewSave runs up to
\* await exportZip.generateAsync(...)
ReviewSaveStart ==
  /\ save.pc = "timer"
  /\ save' = [save EXCEPT !.pc = "generating",
                          !.initialIds = modal.initialIds,
                          !.exportZip = ExportZip(save.items, save.settings,
                                                  originalFilesBufferRef)]
  /\ UNCHANGED <<files, history, isProcessing, currentProcessingId,
                 processedCount, showReviewModal, reviewQueue,
                 reviewModalFilter, settings, zipRef,
                 processedInCurrentBatchRef, folderContentMapRef,
                 originalFilesBufferRef, database, pq, modal,
                 nextId, clock>>

\* the ids of the files whose items were presented in the session, computed
\* from the review queue of the render the save was started in
ProcessedOriginalIds(queue, initialSessionIds) ==
  LET hit == KeepIdx(queue, {k \in 1..Len(queue) :
                               queue[k].id \in initialSessionIds})
  IN DistinctInOrder([k \in 1..Len(hit) |-> hit[k].originalFileId])

\* a record that takes the segments of every item handed over
SavedSegments_All(items, id) ==
  [k \in 1..Len(items) |->
     [items[k].segment EXCEPT !.finalFilename = items[k].filename \o Str_pdf]]

\* itemsToSave.filter(i => i.originalFileId === id)
\*            .map(i => ({...i.segment, finalFilename: i.filename + '.pdf'}))
SavedSegments(items, id) ==
  LET own == KeepIdx(items, {k \in 1..Len(items) : items[k].originalFileId = id})
  IN [k \in 1..Len(own) |->
        [own[k].segment EXCEPT !.finalFilename = own[k].filename \o Str_pdf]]

\* processedOriginalIds.forEach(id => { ... addToHistory(...) })
RECURSIVE SaveHistory(_, _, _, _, _)
SaveHistory(h, ids, k, fs, items) ==
  IF k > Len(ids) THEN h
  ELSE LET at == FindFile(fs, ids[k])
       IN SaveHistory(IF at # 0
                      THEN addToHistory(h, HistoryItem(fs[at],
                                                       SavedSegments(items, ids[k])))
                      ELSE h,
                      ids, k + 1, fs, items)

\* generateAsync of the review archive resolves: steps 3 to 5 of
\* handleReviewSave, then setIsSaving(false)
ReviewSaveFinish ==
  /\ save.pc = "generating"
  /\ LET ids == ProcessedOriginalIds(save.reviewQueue, save.initialIds)
     IN /\ files' = [k \in 1..Len(files) |->
                       IF files[k].id \in Range(ids)
                          /\ files[k].status = "waiting_review"
                       THEN [files[k] EXCEPT !.status = "done"]
                       ELSE files[k]]
        /\ history' = SaveHistory(history, ids, 1, save.files, save.items)
        /\ originalFilesBufferRef' =
             BufferDelete(originalFilesBufferRef, Range(ids))
  /\ reviewQueue' = KeepIdx(reviewQueue, {k \in 1..Len(reviewQueue) :
                                            reviewQueue[k].id \notin save.initialIds})
  /\ showReviewModal' = FALSE
  /\ modal' = ClosedModal
  /\ save' = IdleSave
  /\ UNCHANGED <<isProcessing, currentProcessingId, processedCount,
                 reviewModalFilter, settings, zipRef,
                 processedInCurrentBatchRef, folderContentMapRef, database, pq,
                 nextId, clock>>

(***************************************************************************)
(* src/App.tsx: handleExportCSV                                            *)
(***************************************************************************)
\* the header line, one text per column
CsvHeader ==
  << <<"Original Filename">>, <<"Processed Date">>, <<"Generated Filename">>,
     <<"Delivery ID">>, <<"Customer Name">>, <<"Customer ID">>,
     <<"Date Found">>, <<"Confidence">>, <<"Review Flag">>,
     <<"Review Reason">>, <<"Pages">> >>

\* (value || '').replace(/,/g, ' ')
NoCommas(s) == [k \in 1..Len(s) |-> IF s[k] = "," THEN " " ELSE s[k]]

\* new Date(h.processedAt).toISOString(), for the instants of the model clock
IsoDate(t) == <<"T">> \o Decimal(t) \o <<"Z">>

\* the line of one segment of a record, one text per column
SegmentRow(h, seg) ==
  LET safeId == NoCommas(seg.deliveryId)
      safeCust == NoCommas(seg.customerName)
      safeCustId == NoCommas(seg.customerId)
      safeDate == NoCommas(seg.deliveryDate)
      genName ==
        OrElse(seg.finalFilename,
               safeId \o <<"_">> \o safeDate \o <<"_">> \o safeCust
               \o (IF Truthy(safeCustId) THEN <<"_">> \o safeCustId ELSE <<>>)
               \o Str_pdf)
  IN << h.filename, IsoDate(h.processedAt), genName, safeId, safeCust,
        safeCustId, safeDate, Decimal(seg.confidence),
        IF seg.needsReview THEN <<"Yes">> ELSE <<"No">>,
        NoCommas(seg.reviewReason),
        Decimal(seg.startPage) \o <<"-">> \o Decimal(seg.endPage) >>

\* the line of a record without segments
PlaceholderRow(h) ==
  << h.filename, IsoDate(h.processedAt), <<"(No segments)">>,
     <<>>, <<>>, <<>>, <<>>, <<>>, <<>>, <<>>, <<>> >>

\* an export that writes nothing for a record without segments
RecordRows_SegmentsOnly(h) ==
  [g \in 1..Len(h.segments) |-> SegmentRow(h, h.segments[g])]

\* the lines the body of history.forEach adds for one record
RecordRows(h) ==
  IF Len(h.segments) > 0
  THEN [g \in 1..Len(h.segments) |-> SegmentRow(h, h.segments[g])]
  ELSE <<PlaceholderRow(h)>>

\* the lines of the csv text after the records from k on were added
RECURSIVE CsvFrom(_, _)
CsvFrom(hist, k) ==
  IF k > Len(hist) THEN <<>>
  ELSE RecordRows(hist[k]) \o CsvFrom(hist, k + 1)

\* the csv text handleExportCSV hands to the download, line by line
Csv(hist) == <<CsvHeader>> \o CsvFrom(hist, 1)

\* the click on Export: the text is built from the ledger and downloaded;
\* no state of the program changes
handleExportCSV ==
  /\ Len(Csv(history)) > 0
  /\ UNCHANGED vars

(***************************************************************************)
(* DatabaseCard / SettingsModal: loading the reference table               *)
(***************************************************************************)
\* the parsed content of an uploaded JSON file
JsonInputs ==
  { [isArray |-> FALSE, records |-> <<>>],
    [isArray |-> TRUE, records |-> <<DbRec(Id_I1, Order_12, Cust_Acme)>>],
    [isArray |-> TRUE, records |-> <<DbRec(Id_I1, Order_12, Cust_Acme),
                                     DbRec(Id_I2, NoText, Cust_Ac)>>],
    [isArray |-> TRUE, records |-> <<DbRec(Id_I2, Order_12, Cust_Ac)>>],
    [isArray |-> TRUE, records |-> <<DbRec(NoText, Order_12, Cust_Ac)>>],
    [isArray |-> TRUE, records |-> <<DbRec(Id_I2, Order_12, NoText),
                                     DbRec(Id_I1, Order_12, Cust_Acme)>>] }

\* a validation that looks at the id only
IsValid_IdOnly(records) ==
  \A k \in 1..Len(records) : Truthy(records[k].id)

\* json.every(record => record.id && record.orderId && record.customers)
IsValid(records) ==
  \A k \in 1..Len(records) :
     Truthy(records[k].id) /\ Truthy(records[k].orderId)
     /\ Truthy(records[k].customers)

\* reader.onload of handleFileUpload; the table is loaded from the settings,
\* whose button is disabled while isProcessing
LoadDatabase(json) ==
  /\ ~isProcessing
  /\ database' = IF json.isArray /\ IsValid(json.records)
                 THEN json.records ELSE database
  /\ UNCHANGED <<files, history, isProcessing, currentProcessingId,
                 processedCount, showReviewModal, reviewQueue,
                 reviewModalFilter, settings, zipRef,
                 processedInCurrentBatchRef, folderContentMapRef,
                 originalFilesBufferRef, pq, modal, save, nextId, clock>>

(***************************************************************************)
(* Spec: the pipeline with the user who uploads, removes and configures    *)
(***************************************************************************)
PipelineCore(results) ==
  \/ StartProcess
  \/ RenderReturns
  \/ RenderThrows
  \/ \E raw \in results : AnalyzeReturns(raw)
  \/ AnalyzeThrows
  \/ SplitReturns
  \/ SplitThrows
  \/ BufferReturns
  \/ DownloadReturns
  \/ DownloadThrows

ReviewSession ==
  \/ handleOpenReview
  \/ \E k \in 1..Len(modal.items) : handleDeleteItem(k)
  \/ onCancel
  \/ handleSave
  \/ ReviewSaveStart
  \/ ReviewSaveFinish

\* the File objects the user can select: a name and a page count
Payload_a == [name |-> Name_a, pages |-> MaxPages]
Payload_b == [name |-> Name_b, pages |-> MaxPages]

UploadChoices == { <<Payload_a>>, <<Payload_a, Payload_b>> }

\* what analyzeDocumentImages hands back: an array, or some other value
Arr(segments) == [isArray |-> TRUE, segments |-> segments]

NotAnArray == [isArray |-> FALSE, segments |-> <<>>]

\* the answers of the recognition collaborator tried in Spec
CoreResults ==
  { NotAnArray, Arr(<<SegGood>>), Arr(<<SegLow>>), Arr(<<SegBeyond>>),
    Arr(<<SegBeyond, SegGood>>) }

Next ==
  \/ PipelineCore(CoreResults)
  \/ handleFileUpload(UploadChoices)
  \/ \E id \in FileIds(files) : handleRemoveFile(id)
  \/ \E mode \in OutputModes : handleModeChange(mode)
  \/ handleToggleManualReviewMode

Spec == Init /\ [][Next]_vars

(***************************************************************************)
(* SpecLive: the pipeline with every collaborator call answering           *)
(***************************************************************************)
LiveResults == { NotAnArray, Arr(<<SegGood>>), Arr(<<SegLow>>) }

\* a pending collaborator call of the running invocation returns or throws
CollaboratorAnswers ==
  \/ RenderReturns
  \/ RenderThrows
  \/ \E raw \in LiveResults : AnalyzeReturns(raw)
  \/ AnalyzeThrows
  \/ SplitReturns
  \/ SplitThrows
  \/ BufferReturns
  \/ DownloadReturns
  \/ DownloadThrows

NextLive ==
  \/ StartProcess
  \/ CollaboratorAnswers
  \/ handleFileUpload(UploadChoices)
  \/ handleToggleManualReviewMode

SpecLive == Init /\ [][NextLive]_vars /\ WF_vars(CollaboratorAnswers)

(***************************************************************************)
(* SpecReview: the pipeline with review sessions; the user removes files   *)
(* that wait for review                                                    *)
(***************************************************************************)
ReviewResults == { Arr(<<>>), Arr(<<SegLow>>), Arr(<<SegBeyond, SegGood>>) }

WaitingIds == {files[k].id : k \in {j \in 1..Len(files) :
                                      files[j].status = "waiting_review"}}

NextReview ==
  \/ StartProcess
  \/ RenderReturns
  \/ RenderThrows
  \/ \E raw \in ReviewResults : AnalyzeReturns(raw)
  \/ SplitReturns
  \/ BufferReturns
  \/ DownloadReturns
  \/ ReviewSession
  \/ handleFileUpload(UploadChoices)
  \/ \E id \in WaitingIds : handleRemoveFile(id)
  \/ handleToggleManualReviewMode

SpecReview == Init /\ [][NextReview]_vars

(***************************************************************************)
(* SpecOriginal: the automatic pipeline with every setting of the export   *)
(***************************************************************************)
OriginalResults == { Arr(<<SegGood>>), Arr(<<SegMid>>) }

NextOriginal ==
  \/ StartProcess
  \/ RenderReturns
  \/ \E raw \in OriginalResults : AnalyzeReturns(raw)
  \/ SplitReturns
  \/ BufferReturns
  \/ ZipOriginalReturns
  \/ ZipOriginalThrows
  \/ DownloadReturns
  \/ handleFileUpload(UploadChoices)
  \/ \E mode \in OutputModes : handleModeChange(mode)
  \/ handleToggleIncludeOriginal
  \/ handleToggleManualReviewMode
  \/ \E val \in ConfidenceValues : handleConfidenceChange(val)

SpecOriginal == Init /\ [][NextOriginal]_vars

(***************************************************************************)
(* SpecSave: manual review with every setting of the export; the user      *)
(* renames and deletes items of the session and saves it                   *)
(***************************************************************************)
SaveResults == { Arr(<<SegGood>>), Arr(<<SegLow>>) }

NextSave ==
  \/ StartProcess
  \/ RenderReturns
  \/ \E raw \in SaveResults : AnalyzeReturns(raw)
  \/ SplitReturns
  \/ BufferReturns
  \/ handleFileUpload(UploadChoices)
  \/ \E mode \in OutputModes : handleModeChange(mode)
  \/ handleToggleIncludeOriginal
  \/ handleOpenReview
  \/ \E k \in 1..Len(modal.items) : handleDeleteItem(k)
  \/ \E k \in 1..Len(modal.items), value \in NameInputs :
        handleNameChange(k, value)
  \/ handleSave
  \/ ReviewSaveStart
  \/ ReviewSaveFinish

SpecSave == Init /\ [][NextSave]_vars

(***************************************************************************)
(* SpecNames: getUniqueName applied to every sequence of at most MaxNames   *)
(* candidate names, over the folders of one archive, from every scope      *)
(***************************************************************************)
Name_a1 == Suffixed(<<"a">>, 1)
Name_a2 == Suffixed(<<"a">>, 2)

\* the candidate names: with the suffix in either case, without a suffix,
\* and one that looks like a name getUniqueName made
NameCandidates == {Name_a, Name_b, <<"a">>, Name_a1}

\* the root of the archive and one folder
NameFolders == {NoText, Str_Undated}

\* the scopes an export starts from
NameScopes == {EmptyMap, [f \in {NoText} |-> {Name_a2}]}

InitNames ==
  /\ files = <<>>
  /\ history = <<>>
  /\ isProcessing = FALSE
  /\ currentProcessingId = 0
  /\ processedCount = 0
  /\ showReviewModal = FALSE
  /\ reviewQueue = <<>>
  /\ reviewModalFilter = "all"
  /\ settings = DefaultSettings
  /\ zipRef = EmptyZip
  /\ processedInCurrentBatchRef = 0
  /\ folderContentMapRef \in NameScopes
  /\ originalFilesBufferRef = [id \in {} |-> 0]
  /\ database = <<>>
  /\ pq = IdlePq
  /\ modal = ClosedModal
  /\ save = IdleSave
  /\ nextId = 1
  /\ clock = 0

\* const uniqueName = getUniqueName(map, targetFolder, filename);
\* zip.folder(targetFolder)?.file(uniqueName, data)
PlaceEntry(folder, filename) ==
  /\ Len(zipRef) < MaxNames
  /\ zipRef' = ZipFile(zipRef, folder,
                       getUniqueName(folderContentMapRef, folder, filename),
                       filename)
  /\ folderContentMapRef' = Reserve(folderContentMapRef, folder, filename)
  /\ UNCHANGED <<files, history, isProcessing, currentProcessingId,
                 processedCount, showReviewModal, reviewQueue,
                 reviewModalFilter, settings, processedInCurrentBatchRef,
                 originalFilesBufferRef, database, pq, modal, save, nextId,
                 clock>>

NextNames ==
  \E folder \in NameFolders, filename \in NameCandidates :
     PlaceEntry(folder, filename)

SpecNames == InitNames /\ [][NextNames]_vars

(***************************************************************************)
(* SpecVerify: verifyDocuments applied to segment lists and reference      *)
(* tables drawn from bounded sets; the list is held where processQueue     *)
(* holds the segments of the current file                                  *)
(***************************************************************************)
Reason_blurry == <<"b", "l", "u", "r", "r", "y">>
Order_hash12 == <<"#", "1", "2">>

\* the segments tried: known and unknown delivery ids, customer ids with and
\* without the # marker, absent or wrong, both sides of the confidence
\* threshold, with and without a flag raised by the recognition
VerifySegments ==
  { Seg(1, 1, id, Cust_Ac, custId, Date_12, conf, flag[1], flag[2]) :
      id \in {Id_I1, Id_I2, NoText},
      custId \in {NoText, CustId_12, Order_12, CustId_99},
      conf \in {50, 95},
      flag \in {<<FALSE, NoText>>, <<TRUE, Reason_blurry>>} }

\* the lists tried: every single segment and some lists of two
VerifyLists ==
  { <<segment>> : segment \in VerifySegments }
  \cup { <<SegGood, segment>> : segment \in {SegWrongCust, SegNotInDb, SegGood} }

\* the reference tables tried: none, one record, a record whose orderId
\* carries the # marker, two records, two records with the same id
VerifyDatabases ==
  { <<>>,
    <<DbRec(Id_I1, Order_12, Cust_Acme)>>,
    <<DbRec(Id_I1, Order_hash12, Cust_Acme)>>,
    <<DbRec(Id_I2, Order_12, Cust_Ac), DbRec(Id_I1, Order_12, Cust_Acme)>>,
    <<DbRec(Id_I1, Order_12, Cust_Acme), DbRec(Id_I1, CustId_99, Cust_Ac)>> }

InitVerify ==
  /\ files = <<>>
  /\ history = <<>>
  /\ isProcessing = FALSE
  /\ currentProcessingId = 0
  /\ processedCount = 0
  /\ showReviewModal = FALSE
  /\ reviewQueue = <<>>
  /\ reviewModalFilter = "all"
  /\ settings = DefaultSettings
  /\ zipRef = EmptyZip
  /\ processedInCurrentBatchRef = 0
  /\ folderContentMapRef = EmptyMap
  /\ originalFilesBufferRef = [id \in {} |-> 0]
  /\ database \in VerifyDatabases
  /\ \E segments \in VerifyLists : pq = [IdlePq EXCEPT !.segments = segments]
  /\ modal = ClosedModal
  /\ save = IdleSave
  /\ nextId = 1
  /\ clock = 0

\* segments = verifyDocuments(segments, database)
VerifyStep ==
  /\ \A k \in 1..Len(pq.segments) :
        pq.segments[k].verificationStatus = "undefined"
  /\ pq' = [pq EXCEPT !.segments = verifyDocuments(pq.segments, database)]
  /\ UNCHANGED <<files, history, isProcessing, currentProcessingId,
                 processedCount, showReviewModal, reviewQueue,
                 reviewModalFilter, settings, zipRef,
                 processedInCurrentBatchRef, folderContentMapRef,
                 originalFilesBufferRef, database, modal, save, nextId,
                 clock>>

NextVerify ==
  \/ VerifyStep
  \/ \E json \in JsonInputs : LoadDatabase(json)

SpecVerify == InitVerify /\ [][NextVerify]_vars

(***************************************************************************)
(* SpecSplit: splitPdf applied to documents of every page count and to     *)
(* segment lists drawn from bounded sets; the list and the result are held *)
(* where processQueue holds them for the current file                      *)
(***************************************************************************)
\* the segments tried: every page range from 0 to one page beyond the
\* longest document, reversed ranges included, under two delivery ids
SplitSegments ==
  { Seg(start, end, id, Cust_Ac, NoText, Date_12, 95, FALSE, NoText) :
      start \in 0..(MaxPages + 1), end \in 0..(MaxPages + 1),
      id \in {Id_I1, Id_I2} }

\* the lists tried: none, every single segment, every pair, and the triples
\* that repeat one segment after one that lies beyond the document
SplitLists ==
  { <<>> }
  \cup { <<segment>> : segment \in SplitSegments }
  \cup { <<first, second>> : first \in SplitSegments, second \in SplitSegments }
  \cup { <<SegBeyond, segment, segment>> : segment \in SplitSegments }

\* the documents tried
SplitPayloads == { [name |-> Name_a, pages |-> n] : n \in 1..MaxPages }

InitSplit ==
  /\ \E payload \in SplitPayloads :
        /\ files = <<NewFile(1, payload, 1, <<>>)>>
        /\ \E segments \in SplitLists :
              pq = [IdlePq EXCEPT !.queue = files, !.i = 1,
                                  !.segments = segments]
  /\ history = <<>>
  /\ isProcessing = FALSE
  /\ currentProcessingId = 0
  /\ processedCount = 0
  /\ showReviewModal = FALSE
  /\ reviewQueue = <<>>
  /\ reviewModalFilter = "all"
  /\ settings = DefaultSettings
  /\ zipRef = EmptyZip
  /\ processedInCurrentBatchRef = 0
  /\ folderContentMapRef = EmptyMap
  /\ originalFilesBufferRef = [id \in {} |-> 0]
  /\ database = <<>>
  /\ modal = ClosedModal
  /\ save = IdleSave
  /\ nextId = 2
  /\ clock = 1

\* const splitResults = await splitPdf(fileData.file, segments);
SplitStep ==
  /\ pq.pc = "idle"
  /\ pq' = [pq EXCEPT !.pc = "split",
                      !.splitResults = splitPdf(FileData.file, pq.segments)]
  /\ UNCHANGED <<files, history, isProcessing, currentProcessingId,
                 processedCount, showReviewModal, reviewQueue,
                 reviewModalFilter, settings, zipRef,
                 processedInCurrentBatchRef, folderContentMapRef,
                 originalFilesBufferRef, database, modal, save, nextId,
                 clock>>

NextSplit == SplitStep

SpecSplit == InitSplit /\ [][NextSplit]_vars

(***************************************************************************)
(* SpecDb: the automatic pipeline with a reference table                   *)
(***************************************************************************)
DbResults == { Arr(<<SegGood>>), Arr(<<SegWrongCust>>), Arr(<<SegNotInDb>>) }

NextDb ==
  \/ StartProcess
  \/ RenderReturns
  \/ \E raw \in DbResults : AnalyzeReturns(raw)
  \/ SplitReturns
  \/ DownloadReturns
  \/ handleFileUpload(UploadChoices)
  \/ \E mode \in OutputModes : handleModeChange(mode)
  \/ handleToggleManualReviewMode
  \/ \E json \in JsonInputs : LoadDatabase(json)

SpecDb == Init /\ [][NextDb]_vars

(***************************************************************************)
(* SpecLedger: manual review with renaming and deleting, and the export of *)
(* the ledger                                                              *)
(***************************************************************************)
LedgerResults ==
  { Arr(<<>>), Arr(<<SegGood>>), Arr(<<SegGood, SegNotInDb>>) }

NextLedger ==
  \/ StartProcess
  \/ RenderReturns
  \/ \E raw \in LedgerResults : AnalyzeReturns(raw)
  \/ SplitReturns
  \/ handleFileUpload(UploadChoices)
  \/ handleOpenReview
  \/ \E k \in 1..Len(modal.items) : handleDeleteItem(k)
  \/ \E k \in 1..Len(modal.items) : handleNameChange(k, <<"X", "?">>)
  \/ handleSave
  \/ ReviewSaveStart
  \/ ReviewSaveFinish
  \/ handleExportCSV

SpecLedger == Init /\ [][NextLedger]_vars

(***************************************************************************)
(* SpecCap: one large upload, to reach the per-run cap                     *)
(***************************************************************************)
\* MaxBulk files named 1.pdf, 2.pdf, ...
BulkSelection ==
  [k \in 1..MaxBulk |-> [name |-> Decimal(k) \o Str_pdf, pages |-> 1]]

\* the number of files that ended in the catch block so far
Thrown == Cardinality({k \in 1..Len(files) : files[k].error = Msg_render})

NextCap ==
  \/ StartProcess
  \/ RenderReturns
  \/ (Thrown < MaxThrows /\ RenderThrows)
  \/ AnalyzeReturns(Arr(<<>>))
  \/ (nextId = 1 /\ AddFiles(BulkSelection))

SpecCap == Init /\ [][NextCap]_vars

(***************************************************************************)
(* SpecRuns: a large upload and a small one, processed by several          *)
(* invocations in either mode, without exceptions                          *)
(***************************************************************************)
NextRuns ==
  \/ StartProcess
  \/ RenderReturns
  \/ AnalyzeReturns(Arr(<<>>))
  \/ DownloadReturns
  \/ (nextId = 1 /\ AddFiles(BulkSelection))
  \/ (nextId = MaxBulk + 1 /\ AddFiles(<<Payload_a, Payload_b>>))
  \/ (nextId > 1 /\ processedCount = 0 /\ handleToggleManualReviewMode)

SpecRuns == Init /\ [][NextRuns]_vars

(***************************************************************************)
(* Properties                                                              *)
(***************************************************************************)
FileOf(fs, id) == fs[FindFile(fs, id)]

\* the ids of the files that are in the active set before and after a step
Staying == FileIds(files) \cap FileIds(files')

\* the file the coordinator works on is in the active set
CurrentActive == pq.i > 0 /\ FileData.id \in FileIds(files)

\* the pieces the split of the current file returns
CurrentPieces == splitPdf(FileData.file, pq.segments)

\* a segment of the current file forces review
CurrentForced ==
  \E k \in 1..Len(pq.segments) :
     \/ pq.segments[k].needsReview
     \/ pq.segments[k].confidence < pq.settings.minConfidence

\* this step ends the loop body of the current file without a thrown split
BodyEnds ==
  /\ CurrentActive
  /\ FileData.id \in FileIds(files')
  /\ FileOf(files, FileData.id).status = "splitting"
  /\ FileOf(files', FileData.id).status # "splitting"
  /\ FileOf(files', FileData.id).error # Msg_split

\* the entries of an archive that hold the given binary
EntriesOf(zip, data) == {k \in 1..Len(zip) : zip[k].data = data}

\* C1: in automatic mode, under every output mode, a file whose split
\* succeeds and whose segments force no review has its pieces in the batch
\* archive, ends in done, and gets one HistoryRecord with its segments
\* appended at that moment.
C1_AutoExportEndsDone ==
  [][ ( /\ BodyEnds
        /\ ~pq.settings.manualReviewMode
        /\ Len(CurrentPieces) > 0
        /\ ~CurrentForced ) =>
        /\ FileOf(files', FileData.id).status = "done"
        /\ history' = Append(history, HistoryItem(FileData, pq.segments))
        /\ \A k \in 1..Len(CurrentPieces) :
              EntriesOf(zipRef', CurrentPieces[k].data) # {} ]_vars

\* a segment of the list fails the verification against the loaded table
FailsVerification(segments) ==
  \E k \in 1..Len(segments) :
     verifyDocument(segments[k], database).verificationStatus
        \in {"mismatch", "not_found"}

\* C2: with a non-empty reference table loaded and manualReviewMode off, a
\* file with a segment whose verification outcome is mismatch or not_found
\* is routed to waiting_review and not exported, whatever the confidences.
\* (Stated for the output modes flatten and by_original; by_date is the
\* subject of C1.)
C2_VerificationFailureForcesReview ==
  [][ ( /\ BodyEnds
        /\ Len(database) > 0
        /\ ~pq.settings.manualReviewMode
        /\ pq.settings.outputMode # "by_date"
        /\ Len(CurrentPieces) > 0
        /\ FailsVerification(pq.segments) ) =>
        /\ FileOf(files', FileData.id).status = "waiting_review"
        /\ zipRef' = zipRef
        /\ history' = history ]_vars

\* the ReviewItems of a file in a review queue
ItemsOf(queue, id) == {k \in 1..Len(queue) : queue[k].originalFileId = id}

\* the segments of a list whose clamped page range is not empty
NonEmptyRange(file, segments) ==
  {k \in 1..Len(segments) :
     ClampStart(segments[k]) <= ClampEnd(file, segments[k])}

\* the split of the current file returns pieces and the file is to be reviewed
ReviewRouted ==
  /\ CurrentActive
  /\ pq.pc = "splitting"
  /\ pq' # pq
  /\ FileOf(files', FileData.id).error # Msg_split
  /\ Len(CurrentPieces) > 0
  /\ pq.settings.manualReviewMode \/ CurrentForced

\* the items a step appends to the review queue
Enqueued == SubSeq(reviewQueue', Len(reviewQueue) + 1, Len(reviewQueue'))

\* the loop body of a reviewed file ends in waiting_review, without a record
EndsWaiting ==
  (BodyEnds /\ Len(CurrentPieces) > 0
     /\ (pq.settings.manualReviewMode \/ CurrentForced)) =>
    /\ FileOf(files', FileData.id).status = "waiting_review"
    /\ history' = history

AllowedSteps ==
  { <<"idle", "converting">>, <<"converting", "analyzing">>,
    <<"analyzing", "splitting">>, <<"analyzing", "done">>,
    <<"splitting", "waiting_review">>, <<"splitting", "done">>,
    <<"converting", "error">>, <<"analyzing", "error">>,
    <<"splitting", "error">>, <<"waiting_review", "done">> }

\* this step is the end of a review-session save whose session presented an
\* item of the file
SavedBySession(id) ==
  /\ save.pc = "generating"
  /\ save'.pc = "idle"
  /\ \E item \in save.initialIds : item[1] = id

\* C4: the status of a file only changes along idle -> converting ->
\* analyzing -> splitting -> {waiting_review, done, error}, with analyzing ->
\* done and any in-flight status -> error; a file in waiting_review changes
\* status only to done, and only at the end of a review-session save whose
\* session contained ReviewItems of that file.
C4_StatusLifeCycle ==
  [][ \A id \in Staying :
        LET a == FileOf(files, id).status
            b == FileOf(files', id).status
        IN a # b =>
             /\ <<a, b>> \in AllowedSteps
             /\ a = "waiting_review" => SavedBySession(id) ]_vars

\* a file is done after a review-session save: its record in the ledger
\* carries the names given in the session
C4_Witness ==
  \E k \in 1..Len(files), h \in 1..Len(history) :
     /\ files[k].status = "done"
     /\ history[h].filename = files[k].originalName
     /\ history[h].processedAt = files[k].timestamp
     /\ Len(history[h].segments) > 0
     /\ history[h].segments[1].finalFilename # NoText

EmptyResults == {NotAnArray, Arr(<<>>)}

\* C6: a file of the active set whose recognition result is an empty array,
\* or no array, gets status done with an empty segment list in that step,
\* without passing through splitting, and exactly one HistoryRecord with an
\* empty segment list is appended; such a file stays done with no segment.
C6_EmptyRecognitionEndsDone ==
  [][ /\ (CurrentActive /\ \E raw \in EmptyResults : AnalyzeReturns(raw)) =>
            /\ FileOf(files', FileData.id).status = "done"
            /\ FileOf(files', FileData.id).segments = <<>>
            /\ history' = Append(history, HistoryItem(FileData, <<>>))
            /\ reviewQueue' = reviewQueue
      /\ \A id \in Staying :
            ( /\ FileOf(files, id).status = "done"
              /\ FileOf(files, id).error = Msg_noDocuments ) =>
               FileOf(files', id) = FileOf(files, id) ]_vars

\* a file is done with no segment and the ledger holds its empty record
C6_Witness ==
  \E k \in 1..Len(files), h \in 1..Len(history) :
     /\ files[k].status = "done"
     /\ files[k].segments = <<>>
     /\ files[k].error = Msg_noDocuments
     /\ history[h] = HistoryItem(files[k], <<>>)

\* C7: a file of the active set with at least one segment whose split
\* returns no piece gets status error in that step; no ReviewItem is
\* created, the batch archive, its scope and the buffers are unchanged and
\* nothing is appended to the ledger; such a file stays in error.
C7_NoPiecesEndsError ==
  [][ /\ ( /\ CurrentActive
           /\ SplitReturns
           /\ Len(pq.segments) > 0
           /\ Len(CurrentPieces) = 0 ) =>
            /\ FileOf(files', FileData.id).status = "error"
            /\ FileOf(files', FileData.id).error = Msg_invalidRanges
            /\ UNCHANGED <<reviewQueue, zipRef, folderContentMapRef,
                           originalFilesBufferRef, history>>
      /\ \A id \in Staying :
            ( /\ FileOf(files, id).status = "error"
              /\ FileOf(files, id).error = Msg_invalidRanges ) =>
               FileOf(files', id) = FileOf(files, id) ]_vars

\* a file with a segment is in error because its split returned no piece
C7_Witness ==
  \E k \in 1..Len(files) :
     /\ files[k].status = "error"
     /\ files[k].error = Msg_invalidRanges
     /\ Len(files[k].segments) > 0
     /\ splitPdf(files[k].file, files[k].segments) = <<>>

\* the message of the collaborator that is awaited at a position
MessageAt(pc) ==
  IF pc = "converting" THEN Msg_render
  ELSE IF pc = "analyzing" THEN Msg_ai ELSE Msg_split

\* the queue positions after the current one whose file is in the active set
QueuedAhead ==
  {j \in (pq.i + 1)..Len(pq.queue) : pq.queue[j].id \in FileIds(files)}

\* C8: when the render, recognize or split collaborator throws for the file
\* f of the active set, f gets status error with the collaborator's message;
\* every other file keeps its record, except that the next queued file starts
\* converting; the review queue is unchanged; and if a queued file is still
\* to come the invocation goes on: that file is converting now, or idle and
\* still ahead of the coordinator.
C8_FailureIsIsolated ==
  [][ (CurrentActive /\ (RenderThrows \/ AnalyzeThrows \/ SplitThrows)) =>
        /\ FileOf(files', FileData.id).status = "error"
        /\ FileOf(files', FileData.id).error = MessageAt(pq.pc)
        /\ FileIds(files') = FileIds(files)
        /\ \A id \in FileIds(files) \ {FileData.id} :
              \/ FileOf(files', id) = FileOf(files, id)
              \/ /\ FileOf(files, id).status = "idle"
                 /\ FileOf(files', id) =
                      [FileOf(files, id) EXCEPT !.status = "converting"]
                 /\ pq'.queue[pq'.i].id = id
        /\ reviewQueue' = reviewQueue
        /\ \A j \in QueuedAhead :
              /\ pq'.pc = "converting"
              /\ pq'.queue = pq.queue
              /\ pq'.i <= j
              /\ FileOf(files', pq.queue[j].id).status =
                   IF pq'.i = j THEN "converting" ELSE "idle" ]_vars

\* a file failed with a collaborator's message and the file queued behind
\* it is being converted
C8_Witness ==
  /\ pq.pc = "converting"
  /\ pq.i > 1
  /\ CurrentActive
  /\ FileOf(files, FileData.id).status = "converting"
  /\ pq.queue[pq.i - 1].id \in FileIds(files)
  /\ FileOf(files, pq.queue[pq.i - 1].id).status = "error"
  /\ FileOf(files, pq.queue[pq.i - 1].id).error
        \in {Msg_render, Msg_ai, Msg_split}

\* C9: a file removed while idle, before the coordinator reaches it, is
\* skipped: no collaborator is awaited for a file that is not in the active
\* set, and no ReviewItem and no buffer of original bytes belongs to such a
\* file.
C9_RemovedFileIsSkipped ==
  /\ pq.pc \in {"converting", "analyzing", "splitting", "buffering",
                "zipOriginal"} => FileData.id \in FileIds(files)
  /\ \A k \in 1..Len(reviewQueue) :
        reviewQueue[k].originalFileId \in FileIds(files)
  /\ DOMAIN originalFilesBufferRef \subseteq FileIds(files)

\* C10: within one invocation of processQueue the coordinator starts at most
\* BATCH_LIMIT files, whatever their outcomes, and the queued files it has
\* not started are idle.
C10_AtMostBatchLimitStarted ==
  pq.pc # "idle" =>
    /\ pq.i <= BATCH_LIMIT
    /\ \A j \in (pq.i + 1)..Len(pq.queue) :
          pq.queue[j].id \in FileIds(files) =>
             FileOf(files, pq.queue[j].id).status = "idle"

\* C11: in automatic mode the invocation of processQueue delivers the batch
\* archive at its end only if no file of the active set is waiting for
\* review at that moment, the files forced into review by this invocation
\* included: while downloadBatch runs no file is in waiting_review.
C11_NoDeliveryWhileReviewPending ==
  pq.pc = "downloading" => ~HasPendingReviews(files)

\* the files of the active set that wait for review and have their original
\* bytes buffered, before and after the step
BufferedWaiting ==
  {id \in Staying :
     /\ FileOf(files, id).status = "waiting_review"
     /\ FileOf(files', id).status = "waiting_review"
     /\ id \in DOMAIN originalFilesBufferRef}

\* C12: the buffer of original bytes stored for a file when it was routed to
\* waiting_review stays, with the same bytes, in every step that leaves the
\* file in waiting_review: no later invocation of processQueue and no
\* delivery of the batch archive removes it.
C12_BufferKeptWhileWaiting ==
  [][ \A id \in BufferedWaiting :
        /\ id \in DOMAIN originalFilesBufferRef'
        /\ originalFilesBufferRef'[id] = originalFilesBufferRef[id] ]_vars

\* C13: in every reachable state the buffer of original bytes has entries
\* only for files of the active set whose status is waiting_review.
C13_BufferOnlyForWaitingFiles ==
  \A id \in DOMAIN originalFilesBufferRef :
     /\ id \in FileIds(files)
     /\ FileOf(files, id).status = "waiting_review"

\* the source payloads of the items of a list
PayloadsOf(items) == {items[k].data.src : k \in 1..Len(items)}

\* the files that own an item of a list whose source payload is the given one
OwnersOf(items, payload) ==
  {items[k].originalFileId :
     k \in {j \in 1..Len(items) : items[j].data.src = payload}}

\* the name of the source file of a payload among the items of a list
NameOf(items, payload) ==
  items[CHOOSE k \in 1..Len(items) : items[k].data.src = payload].originalFileName

\* C14: when includeOriginal is enabled at the time a review session is
\* saved, the archive of the session holds exactly one copy of the source
\* payload for each source file that owns a saved item, whatever the
\* settings were when the items were enqueued; the copy is in the folder of
\* the source file in by_original mode and at the root in the other modes.
C14_SaveIncludesEachOriginalOnce ==
  [][ ( /\ ReviewSaveStart
        /\ save.settings.includeOriginal
        /\ settings.includeOriginal ) =>
        \A payload \in PayloadsOf(save.items) :
           /\ Cardinality(EntriesOf(save'.exportZip, payload)) =
                Cardinality(OwnersOf(save.items, payload))
           /\ \A e \in EntriesOf(save'.exportZip, payload) :
                 save'.exportZip[e].folder =
                   OriginalFolder(save.settings.outputMode,
                                  NameOf(save.items, payload)) ]_vars

\* the records a step appends to the ledger
Appended == SubSeq(history', Len(history) + 1, Len(history'))

\* the record belongs to a file of the list
RecordOf(fs, record) ==
  \E k \in 1..Len(fs) :
     /\ fs[k].originalName = record.filename
     /\ fs[k].timestamp = record.processedAt

\* C15: removing a file that waits for review discards its ReviewItems and
\* its buffered bytes: after the removal no item of the file is in the
\* review queue and the file has no buffer; an archive built by a later
\* review-session save holds no item of a removed file, also when the
\* session was open at the time of the removal; and no HistoryRecord is
\* appended for a file that is not in the active set.
C15_RemovalDiscardsItems ==
  [][ /\ \A id \in WaitingIds :
            handleRemoveFile(id) =>
               /\ ItemsOf(reviewQueue', id) = {}
               /\ id \notin DOMAIN originalFilesBufferRef'
               /\ history' = history
      /\ ReviewSaveStart =>
            \A k \in 1..Len(save.items) :
               save.items[k].originalFileId \in FileIds(files)
      /\ \A h \in 1..Len(Appended) : RecordOf(files, Appended[h]) ]_vars

\* the items presented in the open session that the user deleted from its
\* working copy
DeletedIds(m) == m.initialIds \ ItemIds(m.items)

\* the split binaries of the items of a list
PieceData(items) == {items[k].data : k \in 1..Len(items)}

\* the segment of an item as handleReviewSave records it in the ledger
SavedSegment(item) ==
  [item.segment EXCEPT !.finalFilename = item.filename \o Str_pdf]

\* C16: a deletion takes the item out of the working copy of the session
\* for good; the save hands over the working copy as it is at the click;
\* the archive holds one entry per kept item and nothing else but originals;
\* the HistoryRecords the save appends hold segments of kept items only; and
\* after the save no item presented in the session, deleted or kept, is in
\* the review queue.
C16_SaveExportsKeptItemsOnly ==
  [][ /\ \A k \in 1..Len(modal.items) :
            handleDeleteItem(k) =>
               ItemIds(modal'.items) = ItemIds(modal.items) \ {modal.items[k].id}
      /\ (showReviewModal /\ showReviewModal') =>
            DeletedIds(modal) \subseteq DeletedIds(modal')
      /\ handleSave => save'.items = modal.items
      /\ ReviewSaveStart =>
            /\ \A d \in PieceData(save.items) :
                  Cardinality(EntriesOf(save'.exportZip, d)) =
                    Cardinality({k \in 1..Len(save.items) :
                                   save.items[k].data = d})
            /\ \A e \in 1..Len(save'.exportZip) :
                  save'.exportZip[e].data \in
                     PieceData(save.items) \cup PayloadsOf(save.items)
      /\ ReviewSaveFinish =>
            /\ \A k \in 1..Len(reviewQueue') :
                  reviewQueue'[k].id \notin save.initialIds
            /\ \A h \in 1..Len(Appended) :
                  \A g \in 1..Len(Appended[h].segments) :
                     \E k \in 1..Len(save.items) :
                        Appended[h].segments[g] = SavedSegment(save.items[k]) ]_vars

Terminal == {"done", "error"}

\* the records of the ledger that belong to a file
RecordsOf(h, file) == {k \in 1..Len(h) : RecordOf(<<file>>, h[k])}

\* C17: after every step each file of the active set in a terminal state
\* has exactly one HistoryRecord and each other file of the active set has
\* none; and a record is appended only for a file that is in the active set
\* and terminal after the step.
C17_OneRecordPerTerminalFile ==
  [][ /\ \A k \in 1..Len(files') :
            Cardinality(RecordsOf(history', files'[k])) =
               IF files'[k].status \in Terminal THEN 1 ELSE 0
      /\ \A h \in 1..Len(Appended) :
            \E k \in 1..Len(files') :
               /\ RecordOf(<<files'[k]>>, Appended[h])
               /\ files'[k].status \in Terminal ]_vars

\* C18: the ledger is append-only: in every step (upload, removal, a step of
\* processQueue, of a review-session save or of the batch delivery) the
\* ledger before the step is a prefix of the ledger after it, so no record
\* is removed, reordered or modified.
C18_LedgerIsAppendOnly ==
  [][ /\ Len(history) <= Len(history')
      /\ SubSeq(history', 1, Len(history)) = history ]_vars

\* the ledger holds the record of an empty recognition and, after it, a
\* record appended by a review-session save
C18_Witness ==
  \E a, b \in 1..Len(history) :
     /\ a < b
     /\ history[a].segments = <<>>
     /\ Len(history[b].segments) > 0
     /\ history[b].segments[1].finalFilename # NoText

\* C19: for every scope, folder and sequence of candidate names,
\* getUniqueName returns a name that is not reserved in the folder and
\* reserves it, leaving the other folders alone; hence an entry placed under
\* that name replaces no entry of the archive.
C19_UniqueNameIsFresh ==
  [][ \A folder \in NameFolders, filename \in NameCandidates :
        PlaceEntry(folder, filename) =>
          LET uniqueName == getUniqueName(folderContentMapRef, folder, filename)
          IN /\ uniqueName \notin UsedNames(folderContentMapRef, folder)
             /\ UsedNames(folderContentMapRef', folder) =
                  UsedNames(folderContentMapRef, folder) \cup {uniqueName}
             /\ \A other \in NameFolders \ {folder} :
                   UsedNames(folderContentMapRef', other) =
                     UsedNames(folderContentMapRef, other)
             /\ Len(zipRef') = Len(zipRef) + 1
             /\ zipRef'[Len(zipRef')].name = uniqueName ]_vars

\* four entries of one folder that came from the same candidate
C19_Witness ==
  /\ Len(zipRef) = 4
  /\ \A k \in 1..4 : zipRef[k].folder = Str_Undated /\ zipRef[k].data = Name_a
  /\ \A j, k \in 1..4 : j # k => zipRef[j].name # zipRef[k].name

\* the text `${baseName}_(${n}).pdf` for n below 10
Numbered(baseName, n) ==
  baseName \o <<"_", "(", DigitOf(n), ")", ".", "p", "d", "f">>

\* the candidate without its .pdf suffix, in either case
BaseOf(filename) ==
  IF filename \in {Name_a, Name_a1} THEN SubSeq(filename, 1, Len(filename) - 4)
  ELSE IF filename = Name_b THEN <<"b">> ELSE filename

\* the entries of a folder of an archive, in the order they were placed
InFolder(zip, folder) ==
  KeepIdx(zip, {k \in 1..Len(zip) : zip[k].folder = folder})

\* C20: a candidate that is not reserved in the folder is returned
\* unchanged; a reserved candidate yields its base name followed by _(n).pdf
\* for the smallest n >= 1 whose name is not reserved; and in a folder whose
\* names all come from requests of one candidate the n-th collision has
\* the suffix _(n): X.pdf, then X_(1).pdf, then X_(2).pdf ...
C20_SmallestFreeSuffix ==
  [][ \A folder \in NameFolders, filename \in NameCandidates :
        PlaceEntry(folder, filename) =>
          LET used == UsedNames(folderContentMapRef, folder)
              uniqueName == zipRef'[Len(zipRef')].name
              own == InFolder(zipRef', folder)
          IN /\ IF filename \notin used THEN uniqueName = filename
                ELSE \E n \in 1..(MaxNames + 2) :
                        /\ uniqueName = Numbered(BaseOf(filename), n)
                        /\ uniqueName \notin used
                        /\ \A m \in 1..(n - 1) :
                              Numbered(BaseOf(filename), m) \in used
             /\ ( /\ UsedNames(folderContentMapRef', folder) =
                       {own[k].name : k \in 1..Len(own)}
                  /\ \A k \in 1..Len(own) : own[k].data = filename ) =>
                   \A k \in 1..Len(own) :
                      own[k].name = IF k = 1 THEN filename
                                    ELSE Numbered(BaseOf(filename), k - 1) ]_vars

\* a folder holds a.pdf, a_(1).pdf, a_(2).pdf and a_(3).pdf, placed in this
\* order for four requests of a.pdf
C20_Witness ==
  /\ Len(zipRef) = 4
  /\ \A k \in 1..4 : zipRef[k].folder = NoText /\ zipRef[k].data = Name_a
  /\ folderContentMapRef =
       [f \in {NoText} |-> {Name_a, Name_a1, Name_a2, Numbered(<<"a">>, 3)}]
  /\ zipRef[1].name = Name_a
  /\ zipRef[2].name = Name_a1
  /\ zipRef[3].name = Name_a2
  /\ zipRef[4].name = Numbered(<<"a">>, 3)

\* C21: for every segment list, verifying against an empty reference table
\* gives every segment the outcome unknown and changes nothing else of it:
\* customerName stays and needsReview is not set.
C21_EmptyTableYieldsUnknown ==
  [][ (VerifyStep /\ database = <<>>) =>
        /\ Len(pq'.segments) = Len(pq.segments)
        /\ \A k \in 1..Len(pq.segments) :
              pq'.segments[k] =
                [pq.segments[k] EXCEPT !.verificationStatus = "unknown"] ]_vars

\* the ids of the records of a reference table
DbIds(db) == {db[k].id : k \in 1..Len(db)}

\* the sentence that names a delivery id as missing
MissingText(deliveryId) ==
  <<"Delivery ID \"">> \o deliveryId \o <<"\" not found in database">>

\* text s ends with text t
EndsWith(s, t) ==
  Len(s) >= Len(t) /\ SubSeq(s, Len(s) - Len(t) + 1, Len(s)) = t

\* text s starts with text t
StartsWith(s, t) == Len(s) >= Len(t) /\ SubSeq(s, 1, Len(t)) = t

\* C22: a segment whose deliveryId is the id of no record of a non-empty
\* reference table comes back with outcome not_found, needsReview true and
\* a reviewReason that ends with the sentence naming the missing id and,
\* when the segment had a reason, starts with that reason followed by a
\* separator; every other field, customerName included, is unchanged.
C22_AbsentIdYieldsNotFound ==
  [][ VerifyStep =>
        \A k \in 1..Len(pq.segments) :
           LET before == pq.segments[k]
               after == pq'.segments[k]
           IN ( /\ Len(database) > 0
                /\ before.deliveryId \notin DbIds(database) ) =>
                 /\ after = [before EXCEPT
                               !.verificationStatus = "not_found",
                               !.needsReview = TRUE,
                               !.reviewReason = after.reviewReason]
                 /\ EndsWith(after.reviewReason, MissingText(before.deliveryId))
                 /\ StartsWith(after.reviewReason, before.reviewReason)
                 /\ before.reviewReason # NoText =>
                       Len(after.reviewReason) >
                         Len(before.reviewReason)
                           + Len(MissingText(before.deliveryId)) ]_vars

\* a segment flagged by the recognition was not found in a loaded table: its
\* reason holds the old reason and the missing id
C22_Witness ==
  /\ Len(database) > 0
  /\ Len(pq.segments) = 1
  /\ pq.segments[1].verificationStatus = "not_found"
  /\ pq.segments[1].deliveryId = Id_I2
  /\ StartsWith(pq.segments[1].reviewReason, Reason_blurry)
  /\ EndsWith(pq.segments[1].reviewReason, MissingText(Id_I2))

\* an identifier read without a leading #
WithoutHash(s) == IF Len(s) >= 1 /\ s[1] = "#" THEN Tail(s) ELSE s

\* C23: a segment whose deliveryId is the id of a record and whose
\* customerId is absent or equals the record's orderId when a leading # is
\* ignored comes back verified, with that record attached and customerName
\* replaced by the record's customers.
C23_SameIdentifierYieldsVerified ==
  [][ VerifyStep =>
        \A k \in 1..Len(pq.segments) :
           LET before == pq.segments[k]
               after == pq'.segments[k]
               found == DbFind(database, before.deliveryId)
           IN ( /\ found # 0
                /\ \/ before.customerId = NoText
                   \/ WithoutHash(before.customerId)
                        = WithoutHash(database[found].orderId) ) =>
                 /\ after.verificationStatus = "verified"
                 /\ after.dbMatch = <<database[found]>>
                 /\ after.customerName = database[found].customers ]_vars

\* C24: a segment whose deliveryId is the id of a record and whose
\* customerId is present and differs from the record's orderId, written
\* with or without a leading #, comes back with outcome mismatch, needsReview
\* true and that record attached, whatever its confidence and its previous
\* flag; customerName and the other extracted fields stay as they were.
C24_OtherIdentifierYieldsMismatch ==
  [][ VerifyStep =>
        \A k \in 1..Len(pq.segments) :
           LET before == pq.segments[k]
               after == pq'.segments[k]
               found == DbFind(database, before.deliveryId)
           IN ( /\ found # 0
                /\ before.customerId # NoText
                /\ before.customerId # database[found].orderId
                /\ before.customerId # <<"#">> \o database[found].orderId ) =>
                 after = [before EXCEPT
                            !.verificationStatus = "mismatch",
                            !.needsReview = TRUE,
                            !.dbMatch = <<database[found]>>,
                            !.reviewReason = after.reviewReason] ]_vars

\* a segment the recognition was confident about and had not flagged was
\* verified against a record with another order id
C24_Witness ==
  /\ Len(pq.segments) = 1
  /\ pq.segments[1].verificationStatus = "mismatch"
  /\ pq.segments[1].confidence = 95
  /\ pq.segments[1].customerId = CustId_99
  /\ pq.segments[1].dbMatch = <<DbRec(Id_I1, Order_12, Cust_Acme)>>
  /\ pq.segments[1].customerName = Cust_Ac
  /\ ~StartsWith(pq.segments[1].reviewReason, Reason_blurry)

\* an uploaded input that is an array of records that each have an id, an
\* orderId and customers
WellFormed(json) ==
  /\ json.isArray
  /\ \A k \in 1..Len(json.records) :
        /\ json.records[k].id # NoText
        /\ json.records[k].orderId # NoText
        /\ json.records[k].customers # NoText

ArchiveTouched ==
  zipRef' # zipRef \/ folderContentMapRef' # folderContentMapRef

\* the step empties the archive and its scope: at the start of an invocation
\* or after the delivery
ArchiveReset ==
  /\ pq.pc \in {"idle", "downloading"}
  /\ zipRef' = EmptyZip
  /\ folderContentMapRef' = EmptyMap

\* after the step the current file, when it is in the active set, is done
CurrentDone ==
  FileData.id \in FileIds(files') =>
    FileOf(files', FileData.id).status = "done"

\* C26: the batch archive and its name scope change only in a reset (start
\* of an invocation, delivery) and in the automatic export of a file that
\* then ends in done; the processing of a file that ends in waiting_review,
\* in error or in done without segments leaves both as they were.
C26_ArchiveOnlyForExportedFiles ==
  [][ /\ ArchiveTouched =>
           \/ ArchiveReset
           \/ /\ pq.pc \in {"splitting", "zipOriginal"}
              /\ ~pq.settings.manualReviewMode
              /\ pq'.pc = "zipOriginal" \/ CurrentDone
      /\ (pq.pc = "zipOriginal" /\ pq'.pc # "zipOriginal") => CurrentDone ]_vars

\* the ids of the files of fs that are being rendered, recognised or split
InFlightIds(fs) == {fs[k].id : k \in {j \in 1..Len(fs) : fs[j].status \in InFlight}}

\* the ids of the files that enter converting in this step
EntersConverting ==
  {id \in FileIds(files') :
     /\ FileOf(files', id).status = "converting"
     /\ id \in FileIds(files) => FileOf(files, id).status # "converting"}

\* C27: after every step at most one file is in converting, analyzing or
\* splitting and no invocation runs unless isProcessing is set; a file that
\* enters converting is the current file of the invocation, and every file
\* before it in the queue of that invocation that is still in the active
\* set has left idle and the in-flight states.
C27_OneFileInQueueOrder ==
  [][ /\ Cardinality(InFlightIds(files')) <= 1
      /\ ~isProcessing' => pq'.pc = "idle" /\ InFlightIds(files') = {}
      /\ \A id \in EntersConverting :
            /\ pq'.i > 0
            /\ pq'.queue[pq'.i].id = id
            /\ \A h \in 1..(pq'.i - 1) :
                  pq'.queue[h].id \in FileIds(files') =>
                    FileOf(files', pq'.queue[h].id).status
                      \notin InFlight \cup {"idle"} ]_vars

\* the second file of an invocation is being rendered while the first one,
\* still in the active set, has ended
C27_Witness ==
  /\ pq.i = 2
  /\ pq.pc = "converting"
  /\ InFlightIds(files) = {pq.queue[2].id}
  /\ pq.queue[1].id \in FileIds(files)
  /\ FileOf(files, pq.queue[1].id).status \in Terminal

\* the items of a file in the working copy a save was handed, in their order
KeptOf(id) == KeepIdx(save.items, ItemsOf(save.items, id))

\* the record holds exactly the kept segments of the file, each named after
\* the filename of its item as edited
HoldsKept(record, id) ==
  /\ Len(record.segments) = Len(KeptOf(id))
  /\ \A g \in 1..Len(record.segments) :
        /\ record.segments[g] =
             [KeptOf(id)[g].segment EXCEPT
                !.finalFilename = record.segments[g].finalFilename]
        /\ record.segments[g].finalFilename =
             KeptOf(id)[g].filename \o <<".", "p", "d", "f">>

\* C28: every HistoryRecord that the end of a review-session save appends
\* belongs to a file an item of which the session presented, and holds
\* exactly the segments of the items of that file that are in the working
\* copy handed to the save, in their order, each with finalFilename equal to
\* the edited filename of its item followed by .pdf.
C28_RecordHoldsKeptSegments ==
  [][ ReviewSaveFinish =>
        \A h \in 1..Len(Appended) :
           \E k \in 1..Len(save.files) :
              /\ \E item \in save.initialIds : item[1] = save.files[k].id
              /\ Appended[h].filename = save.files[k].originalName
              /\ Appended[h].processedAt = save.files[k].timestamp
              /\ HoldsKept(Appended[h], save.files[k].id) ]_vars

\* the ledger holds a record of a file one of whose two items the user
\* deleted, with the kept segment saved under the name the user typed, and
\* a record without segments
C28_Witness ==
  /\ \E h \in 1..Len(history) :
        /\ Len(history[h].segments) = 1
        /\ history[h].segments[1].deliveryId = Id_I2
        /\ history[h].segments[1].finalFilename = <<"X", "_">> \o Str_pdf
  /\ \E h \in 1..Len(history) :
        /\ history[h].filename = Name_b
        /\ history[h].segments = <<>>
  /\ \A k \in 1..Len(files) : files[k].status = "done"

\* the number of lines the records before record k account for
RECURSIVE RowsBefore(_, _)
RowsBefore(hist, k) ==
  IF k <= 1 THEN 0
  ELSE RowsBefore(hist, k - 1) + Max(1, Len(hist[k - 1].segments))

\* C29: the export of the ledger is the header followed, record by record in
\* ledger order, by one line per segment of the record in segment order, or
\* by one placeholder line when the record has no segment; so it has
\* 1 + the sum over the records of max(1, number of segments) lines.
C29_OneRowPerSegment ==
  LET csv == Csv(history)
  IN /\ csv[1] = CsvHeader
     /\ Len(csv) = 1 + RowsBefore(history, Len(history) + 1)
     /\ \A k \in 1..Len(history) :
           LET first == 1 + RowsBefore(history, k)
               record == history[k]
           IN IF Len(record.segments) = 0
              THEN /\ csv[first + 1][1] = record.filename
                   /\ csv[first + 1][3] = <<"(No segments)">>
                   /\ csv[first + 1][11] = <<>>
              ELSE \A g \in 1..Len(record.segments) :
                      /\ csv[first + g][1] = record.filename
                      /\ csv[first + g][3] # <<"(No segments)">>
                      /\ csv[first + g][4] = record.segments[g].deliveryId
                      /\ csv[first + g][11] =
                           Decimal(record.segments[g].startPage) \o <<"-">>
                           \o Decimal(record.segments[g].endPage)

\* the ledger holds a record without segments before a record with two
\* segments: the export has four lines
C29_Witness ==
  /\ Len(history) = 2
  /\ Len(history[1].segments) = 0
  /\ Len(history[2].segments) = 2
  /\ Len(Csv(history)) = 4

\* the binary was cut from the clamped page range of the segment
CutFrom(data, segment) ==
  /\ data.first = ClampStart(segment)
  /\ data.last = ClampEnd(data.src, segment)

\* C30: every ReviewItem holds, next to its split binary, the segment from
\* whose page range that binary was cut, also when a segment of the file
\* gave no piece because its clamped page range is empty.
C30_ItemHoldsItsSegment ==
  \A k \in 1..Len(reviewQueue) :
     CutFrom(reviewQueue[k].data, reviewQueue[k].segment)

\* the ids of the files of the active set that wait for review
WaitingFiles ==
  {files[k].id : k \in {j \in 1..Len(files) : files[j].status = "waiting_review"}}

\* the ids of the files that own a ReviewItem of the queue
QueueOwners == {reviewQueue[k].originalFileId : k \in 1..Len(reviewQueue)}

\* C31: in every reachable state each ReviewItem of the queue belongs to a
\* file of the active set that waits for review, and each file that waits
\* for review has at least one ReviewItem in the queue.
C31_QueueMatchesWaitingFiles == QueueOwners = WaitingFiles

\* C32: while a review session stays open, no step of the pipeline (another
\* file being routed to review, the default filter being switched) changes
\* its working copy: the items with their edited filenames, without the
\* deleted ones.
C32_PipelineKeepsWorkingCopy ==
  [][ ( /\ showReviewModal
        /\ showReviewModal'
        /\ pq' # pq ) => modal'.items = modal.items ]_vars

\* the items of the queue that the session whose save ends in this step did
\* not present
NotPresented ==
  {k \in 1..Len(reviewQueue) : reviewQueue[k].id \notin save.initialIds}

\* the files that own an item of the session, presented or in the working
\* copy that was saved
SessionFiles ==
  {item[1] : item \in save.initialIds}
  \cup {save.items[k].originalFileId : k \in 1..Len(save.items)}

\* C33: a review-session save affects only the items presented when the
\* session was opened.  The set of presented items is not changed by the
\* pipeline while the session is open; and the end of the save leaves the
\* items it did not present in the queue, in their order, puts no binary of
\* them into its archive, and leaves a file none of whose items belongs to
\* the session with its status and without a new HistoryRecord.
C33_SaveTouchesPresentedOnly ==
  [][ /\ ( /\ showReviewModal
           /\ showReviewModal'
           /\ pq' # pq ) => modal'.initialIds = modal.initialIds
      /\ ReviewSaveFinish =>
           /\ reviewQueue' = KeepIdx(reviewQueue, NotPresented)
           /\ \A k \in NotPresented :
                 reviewQueue[k].originalFileId \notin SessionFiles =>
                   EntriesOf(save.exportZip, reviewQueue[k].data) = {}
           /\ \A k \in 1..Len(files) :
                 files[k].id \notin SessionFiles =>
                   /\ files'[k] = files[k]
                   /\ \A h \in 1..Len(Appended) :
                         ~RecordOf(<<files[k]>>, Appended[h]) ]_vars

\* C34: when every collaborator call returns or throws, every invocation of
\* processQueue ends: isProcessing is false again, currentProcessingId is
\* cleared, and no file is in converting, analyzing or splitting.
C34_InvocationEnds ==
  isProcessing ~> ( /\ ~isProcessing
                    /\ currentProcessingId = 0
                    /\ pq.pc = "idle"
                    /\ InFlightIds(files) = {} )

\* an invocation in which the render of the first file threw has ended and
\* its second file is done
C34_Witness ==
  /\ ~isProcessing
  /\ currentProcessingId = 0
  /\ Len(files) = 2
  /\ files[1].status = "error"
  /\ files[1].error = Msg_render
  /\ files[2].status = "done"

\* the step ends the loop of the running invocation
LoopEnds ==
  /\ pq.pc \notin {"idle", "downloading"}
  /\ pq'.pc \in {"idle", "downloading"}

\* C35: an invocation of processQueue that starts with k idle files and
\* meets no exception processes min(k, BATCH_LIMIT) of them before its loop
\* ends, in manual review mode and in automatic mode, whatever earlier
\* invocations processed.
C35_CapIsPerInvocation ==
  [][ LoopEnds => pq.i = Min(Len(pq.queue), BATCH_LIMIT) ]_vars

\* C36: a segment that verification finds verified keeps the flag and the
\* reason the recognition gave it: needsReview is after the step what it
\* was before, and so is reviewReason.
C36_VerifiedKeepsFlag ==
  [][ VerifyStep =>
        \A k \in 1..Len(pq.segments) :
           pq'.segments[k].verificationStatus = "verified" =>
             /\ pq'.segments[k].needsReview = pq.segments[k].needsReview
             /\ pq'.segments[k].reviewReason = pq.segments[k].reviewReason ]_vars

\* a segment the recognition had flagged was verified and is still flagged
C36_Witness ==
  /\ Len(pq.segments) = 1
  /\ pq.segments[1].verificationStatus = "verified"
  /\ pq.segments[1].needsReview
  /\ pq.segments[1].reviewReason = Reason_blurry
  /\ pq.segments[1].customerName = Cust_Acme

\* the pages (1-based) of a document that lie in the range of a segment
RangePages(file, segment) ==
  {p \in 1..file.pages : segment.startPage <= p /\ p <= segment.endPage}

\* the segments of a list whose range holds a page of the document, in order
WithPages(file, segments) ==
  LET HasPage(segment) == RangePages(file, segment) # {}
  IN SelectSeq(segments, HasPage)

\* C37: splitPdf returns, in the order of the segments, one piece for each
\* segment whose page range holds a page of the document, cut from exactly
\* those pages, and none for the other segments; the filenames of the pieces
\* of one call differ from each other.
C37_OnePiecePerNonEmptySegment ==
  [][ SplitStep =>
        LET file == FileData.file
            kept == WithPages(file, pq.segments)
            results == pq'.splitResults
        IN /\ Len(results) = Len(kept)
           /\ \A k \in 1..Len(results) :
                 /\ results[k].data.src = file
                 /\ (results[k].data.first + 1)..(results[k].data.last + 1)
                      = RangePages(file, kept[k])
                 /\ StartsWith(results[k].filename,
                               StripPdf(SplitFilename(kept[k])))
           /\ \A k \in 1..Len(results), h \in 1..Len(results) :
                 results[k].filename = results[h].filename => k = h ]_vars

\* a call with three segments, the first beyond the document and the other
\* two alike, gave two pieces, the second under a numbered name
C37_Witness ==
  /\ pq.pc = "split"
  /\ Len(pq.segments) = 3
  /\ pq.segments[1] = SegBeyond
  /\ Len(pq.splitResults) = 2
  /\ pq.splitResults[1].filename = SplitFilename(pq.segments[2])
  /\ pq.splitResults[2].filename =
       Suffixed(StripPdf(SplitFilename(pq.segments[3])), 1)
  /\ pq.splitResults[2].data.first = 0
  /\ pq.splitResults[2].data.last = FileData.file.pages - 1

\* the g-th index, in increasing order, of a set of indices
NthOf(indices, g) ==
  CHOOSE j \in indices : Cardinality({h \in indices : h < j}) = g - 1

\* C38: for every item kept in a review-session save, the finalFilename that
\* the ledger records for it is the name of the entry that holds its binary
\* in the archive of the save, also when several kept items of one folder
\* carry the same edited filename.
C38_LedgerNameIsArchiveName ==
  [][ ReviewSaveFinish =>
        \A h \in 1..Len(Appended), k \in 1..Len(save.files) :
           ( /\ RecordOf(<<save.files[k]>>, Appended[h])
             /\ Len(Appended[h].segments) = Len(KeptOf(save.files[k].id)) ) =>
             \A g \in 1..Len(Appended[h].segments) :
                LET at == NthOf(ItemsOf(save.items, save.files[k].id), g)
                IN /\ save.exportZip[at].data = save.items[at].data
                   /\ save.exportZip[at].name =
                        Appended[h].segments[g].finalFilename ]_vars

====
